---- MODULE Spec2Model ----
(***************************************************************************)
(* The TSO/PSO execution engine of the ISA interpreter: the dependency     *)
(* graph (dependency_graph.rs), the store buffers and main memory          *)
(* (memory_subsystem.rs), the register file and TSO::exec_instruction      *)
(* (thread_subsystem.rs) and the interactive loop InterpretorTSO::run      *)
(* (lib.rs); and the sequentially consistent engine SequentialConsistency  *)
(* with its loop InterpretorSC::run, as a second specification SpecSC over  *)
(* the same variables (an engine has no state of the other one); SpecMain  *)
(* is main (main.rs), which starts the engine the memory model names.       *)
(* SpecParse is the parser of one line (instruction.rs) on its own.         *)
(*                                                                         *)
(* Text.  A token is the sequence of its characters, a line the sequence   *)
(* of its tokens (what split_whitespace yields), a blank line the empty    *)
(* sequence, a file the sequence of its lines.                              *)
(*                                                                         *)
(* History.  steps and writes count the instructions and Propagate nodes   *)
(* executed, and the writes buffered, by a TSO/PSO run; only SpecCount      *)
(* moves them.                                                              *)
(*                                                                         *)
(* Runs side by side.  reached holds, per mode (PSO or not), the engines   *)
(* that all runs of InterpretorTSO have reached after the same number of    *)
(* executed nodes (SpecBoth); tso is a TSO engine stepped next to the SC    *)
(* engine on the same programs (SpecTwin).                                   *)
(*                                                                         *)
(* Representation.  An Rc<RefCell<InstructionNode>> is a pointer; the      *)
(* pointer of a node is written as the triple NodeType::id formats         *)
(* (<<"", t, l>> for "t-l", <<"prop_", t, l>> for "prop_t-l").  The arena  *)
(* maps every live pointer to its InstructionNode; a node whose strong     *)
(* count drops to zero leaves the arena.  A HashMap is a function whose    *)
(* DOMAIN is its key set.  A Vec / VecDeque is a sequence.                 *)
(***************************************************************************)
EXTENDS Integers, Sequences, FiniteSets, TLC

VARIABLES memory_model, programs, is_pso, dependency_graph, memory, buffers,
          registers, instruction_pointers, status, line, parsed, steps, writes,
          reached, tso

vars == <<memory_model, programs, is_pso, dependency_graph, memory, buffers,
          registers, instruction_pointers, status, line, parsed, steps, writes,
          reached, tso>>

\* ------------------------------------------------------------------ bounds

\* Longest generated single-thread program.
MaxLen == 3

\* ------------------------------------------------------- generic sequences

Range(s) == {s[i] : i \in 1..Len(s)}

RECURSIVE Retain(_, _)
\* Vec::retain(|n| !Rc::ptr_eq(n, &node))
Retain(s, node) ==
    IF s = <<>> THEN <<>>
    ELSE IF Head(s) = node THEN Retain(Tail(s), node)
    ELSE <<Head(s)>> \o Retain(Tail(s), node)

\* ---------------------------------------------------------- instructions

Register(name) == [ref |-> "Register", name |-> name]
Memory(name) == [ref |-> "Memory", name |-> name]
NoRef == [ref |-> "None", name |-> ""]

AssignConst(dst, n) ==
    [op |-> "AssignConst", mode |-> "NA", args |-> <<dst>>, num |-> n,
     arith |-> "NA", goto |-> "NA"]
AssignOperation(dst, lhs, arith, rhs) ==
    [op |-> "AssignOperation", mode |-> "NA", args |-> <<dst, lhs, rhs>>, num |-> 0,
     arith |-> arith, goto |-> "NA"]
ConditionalJump(cond, label) ==
    [op |-> "ConditionalJump", mode |-> "NA", args |-> <<cond>>, num |-> 0,
     arith |-> "NA", goto |-> label]
Load(mode, addr, dst) ==
    [op |-> "Load", mode |-> mode, args |-> <<addr, dst>>, num |-> 0,
     arith |-> "NA", goto |-> "NA"]
Store(mode, src, addr) ==
    [op |-> "Store", mode |-> mode, args |-> <<src, addr>>, num |-> 0,
     arith |-> "NA", goto |-> "NA"]
Cas(dst, mode, addr, expected, desired) ==
    [op |-> "Cas", mode |-> mode, args |-> <<dst, addr, expected, desired>>, num |-> 0,
     arith |-> "NA", goto |-> "NA"]
Fai(dst, mode, addr, incr) ==
    [op |-> "Fai", mode |-> mode, args |-> <<dst, addr, incr>>, num |-> 0,
     arith |-> "NA", goto |-> "NA"]
Fence(mode) ==
    [op |-> "Fence", mode |-> mode, args |-> <<>>, num |-> 0,
     arith |-> "NA", goto |-> "NA"]

\* ArithCommand::apply on usize.  A subtraction below zero and a division by
\* zero have no usize result (the debug build aborts): ok is FALSE.
apply(arith, lhs, rhs) ==
    CASE arith = "Add" -> [ok |-> TRUE, value |-> lhs + rhs]
      [] arith = "Sub" -> IF lhs >= rhs THEN [ok |-> TRUE, value |-> lhs - rhs]
                          ELSE [ok |-> FALSE, value |-> 0]
      [] arith = "Mul" -> [ok |-> TRUE, value |-> lhs * rhs]
      [] arith = "Div" -> IF rhs # 0 THEN [ok |-> TRUE, value |-> lhs \div rhs]
                          ELSE [ok |-> FALSE, value |-> 0]

LabeledInstruction(label, instruction, line_index, thread_id) ==
    [label |-> label, instruction |-> instruction,
     line_index |-> line_index, thread_id |-> thread_id]

\* LabeledInstruction::id: format!("{}-{}", thread_id, line_index)
LabeledInstruction_id(li) == <<"", li.thread_id, li.line_index>>

\* Option<String> of LabeledInstruction.label.
NoLabel == [some |-> FALSE, name |-> ""]
Label(name) == [some |-> TRUE, name |-> name]

\* ------------------------------------------------------------------ parsing

\* std::str::from_utf8(bytes).to_string(): the string of a token.
RECURSIVE Str(_)
Str(chars) == IF chars = <<>> THEN "" ELSE Head(chars) \o Str(Tail(chars))

Digits == <<"0", "1", "2", "3", "4", "5", "6", "7", "8", "9">>

is_ascii_digit(c) == \E d \in 1..Len(Digits) : Digits[d] = c

\* str::parse::<usize>: decimal digits only (a sign is never seen here, the
\* first character is a digit).  The tokens of this model stay far below the
\* twenty digits at which usize overflows and the parse fails.
parse_usize(chars) ==
    LET value[k \in 0..Len(chars)] ==
            IF k = 0 THEN 0
            ELSE value[k - 1] * 10 + ((CHOOSE d \in 1..Len(Digits) : Digits[d] = chars[k]) - 1)
    IN  IF \A k \in 1..Len(chars) : is_ascii_digit(chars[k])
        THEN [ok |-> TRUE, value |-> value[Len(chars)]]
        ELSE [ok |-> FALSE, value |-> 0]

\* Reference::from_str that keeps the `#` in the name of a memory cell.
Reference_from_str_keep_prefix(cmd) ==
    IF cmd # <<>> /\ Head(cmd) = "#" THEN Memory(Str(cmd)) ELSE Register(Str(cmd))

\* Reference::from_str: [b'#', rest @ ..] => Memory(rest), _ => Register(cmd).
Reference_from_str(cmd) ==
    IF cmd # <<>> /\ Head(cmd) = "#" THEN Memory(Str(Tail(cmd))) ELSE Register(Str(cmd))

\* enum Command; val is the payload of Arith, Ref, Number and MemoryAccess.
Command(cmd, val) == [cmd |-> cmd, val |-> val]

\* Result<T, Error>, and the outcome of a call that panicked instead.
Ok(value) == [kind |-> "Ok", value |-> value]
Err(error) == [kind |-> "Err", value |-> error]
Panicked == [kind |-> "Panic", value |-> ""]

\* .parse::<usize>().map(Self::Number).map_err(|_| Error::InvalidCommand(..))
Number_of(number) ==
    IF number.ok THEN Ok(Command("Number", number.value)) ELSE Err("InvalidCommand")

\* Command::from_str.
Command_from_str(cmd) ==
    LET s == Str(cmd)
    IN  CASE s = "+" -> Ok(Command("Arith", "Add"))
          [] s = "-" -> Ok(Command("Arith", "Sub"))
          [] s = "/" -> Ok(Command("Arith", "Div"))
          [] s = "*" -> Ok(Command("Arith", "Mul"))
          [] s = "SEQ_CST" -> Ok(Command("MemoryAccess", "SEQ_CST"))
          [] s = "REL" -> Ok(Command("MemoryAccess", "REL"))
          [] s = "ACQ" -> Ok(Command("MemoryAccess", "ACQ"))
          [] s = "REL_ACQ" -> Ok(Command("MemoryAccess", "REL_ACQ"))
          [] s = "RLX" -> Ok(Command("MemoryAccess", "RLX"))
          [] s = "=" -> Ok(Command("Eq", ""))
          [] s = ":=" -> Ok(Command("Assign", ""))
          [] s = "load" -> Ok(Command("Load", ""))
          [] s = "store" -> Ok(Command("Store", ""))
          [] s = "if" -> Ok(Command("If", ""))
          [] s = "goto" -> Ok(Command("Goto", ""))
          [] s = "fence" -> Ok(Command("Fence", ""))
          [] s = "cas" -> Ok(Command("Cas", ""))
          [] s = "fai" -> Ok(Command("Fai", ""))
          [] OTHER ->
                IF ~is_ascii_digit(Head(cmd))
                THEN Ok(Command("Ref", Reference_from_str(cmd)))
                ELSE Number_of(parse_usize(cmd))

\* str_to_commands inside Instruction::from_str:
\* cmd.split_whitespace().map(|cmd| cmd.parse::<Command>().unwrap()).collect();
\* the unwrap panics on the first token Command::from_str rejects.
unwrap_all(results) ==
    IF \E k \in 1..Len(results) : results[k].kind = "Err" THEN Panicked
    ELSE Ok([k \in 1..Len(results) |-> results[k].value])

str_to_commands(cmd) == unwrap_all([k \in 1..Len(cmd) |-> Command_from_str(cmd[k])])

\* The variants of a slice of commands, without their payloads.
shape(commands) == [k \in 1..Len(commands) |-> commands[k].cmd]

\* Instruction::from_str: the match on commands.as_slice().
match_commands(c) ==
    CASE shape(c) = <<"Ref", "Eq", "Number">> ->
            Ok(AssignConst(c[1].val, c[3].val))
      [] shape(c) = <<"Ref", "Eq", "Ref", "Arith", "Ref">> ->
            Ok(AssignOperation(c[1].val, c[3].val, c[4].val, c[5].val))
      [] shape(c) = <<"If", "Ref", "Goto", "Ref">> /\ c[4].val.ref = "Register" ->
            Ok(ConditionalJump(c[2].val, c[4].val.name))
      [] shape(c) = <<"Load", "MemoryAccess", "Ref", "Ref">> ->
            Ok(Load(c[2].val, c[3].val, c[4].val))
      [] shape(c) = <<"Store", "MemoryAccess", "Ref", "Ref">> ->
            Ok(Store(c[2].val, c[3].val, c[4].val))
      [] shape(c) = <<"Ref", "Assign", "Cas", "MemoryAccess", "Ref", "Ref", "Ref">> ->
            Ok(Cas(c[1].val, c[4].val, c[5].val, c[6].val, c[7].val))
      [] shape(c) = <<"Ref", "Assign", "Fai", "MemoryAccess", "Ref", "Ref">> ->
            Ok(Fai(c[1].val, c[4].val, c[5].val, c[6].val))
      [] shape(c) = <<"Fence", "MemoryAccess">> ->
            Ok(Fence(c[2].val))
      [] OTHER -> Err("InvalidInstruction")

\* Instruction::from_str: the commands of the line, then the match on them.
Instruction_from_commands(commands) ==
    IF commands.kind = "Panic" THEN Panicked ELSE match_commands(commands.value)

Instruction_from_str(cmd) == Instruction_from_commands(str_to_commands(cmd))

\* str::replace(":", ""): the token without its colons.
RECURSIVE without_colons(_)
without_colons(chars) ==
    IF chars = <<>> THEN <<>>
    ELSE IF Head(chars) = ":" THEN without_colons(Tail(chars))
    ELSE <<Head(chars)>> \o without_colons(Tail(chars))

\* LabeledInstruction::label on a line that has a token: a first token that
\* ends with `:` is the label, the rest is the instruction.
LabeledInstruction_label(cmd) ==
    IF Head(cmd)[Len(Head(cmd))] = ":"
    THEN [label |-> Label(Str(without_colons(Head(cmd)))), cmd |-> Tail(cmd)]
    ELSE [label |-> NoLabel, cmd |-> cmd]

\* let instruction = Instruction::from_str(..)?; Ok(Self { label, instruction,
\* line_index: 0, thread_id: 0 })
LabeledInstruction_of(label, instruction) ==
    IF instruction.kind = "Ok"
    THEN Ok(LabeledInstruction(label, instruction.value, 0, 0))
    ELSE instruction

LabeledInstruction_of_split(split) ==
    LabeledInstruction_of(split.label, Instruction_from_str(split.cmd))

\* LabeledInstruction::from_str.  On a line without a token
\* commands.first().unwrap() panics.
LabeledInstruction_from_str(cmd) ==
    IF cmd = <<>> THEN Panicked
    ELSE LabeledInstruction_of_split(LabeledInstruction_label(cmd))

\* The loop of parse_program: a blank line is skipped, any other line is parsed
\* (a line that does not parse ends the process: expect, or the unwrap inside
\* the parser) and pushed with line_index = program.len().
RECURSIVE parse_program_from(_, _, _)
RECURSIVE parse_program_push(_, _, _, _)
parse_program_from(lines, thread_id, program) ==
    IF lines = <<>> THEN Ok(program)
    ELSE IF Head(lines) = <<>> THEN parse_program_from(Tail(lines), thread_id, program)
    ELSE parse_program_push(LabeledInstruction_from_str(Head(lines)), Tail(lines),
                            thread_id, program)

parse_program_push(instruction, lines, thread_id, program) ==
    IF instruction.kind # "Ok" THEN Panicked
    ELSE parse_program_from(
             lines, thread_id,
             Append(program,
                    LabeledInstruction(instruction.value.label, instruction.value.instruction,
                                       Len(program), thread_id)))

\* parse_program that numbers a line by its position in the file, blank lines
\* included.
RECURSIVE parse_program_at(_, _, _, _)
RECURSIVE parse_program_push_at(_, _, _, _, _)
parse_program_at(lines, thread_id, program, position) ==
    IF lines = <<>> THEN Ok(program)
    ELSE IF Head(lines) = <<>>
         THEN parse_program_at(Tail(lines), thread_id, program, position + 1)
    ELSE parse_program_push_at(LabeledInstruction_from_str(Head(lines)), Tail(lines),
                               thread_id, program, position)

parse_program_push_at(instruction, lines, thread_id, program, position) ==
    IF instruction.kind # "Ok" THEN Panicked
    ELSE parse_program_at(
             lines, thread_id,
             Append(program,
                    LabeledInstruction(instruction.value.label, instruction.value.instruction,
                                       position, thread_id)),
             position + 1)

parse_program_file_position(file, thread_id) == parse_program_at(file, thread_id, <<>>, 0)

parse_program(file, thread_id) == parse_program_from(file, thread_id, <<>>)

\* The programs of all threads, unless the parse of a file ended the process.
collect(results) ==
    IF \E t \in 1..Len(results) : results[t].kind # "Ok" THEN Panicked
    ELSE Ok([t \in 1..Len(results) |-> results[t].value])

\* programs_to_instructions: the t-th file (0-based) is the program of thread t.
programs_to_instructions(files) ==
    collect([t \in 1..Len(files) |-> parse_program(files[t], t - 1)])

\* --------------------------------------------------------- graph nodes

InstructionNodeType(li) == [type |-> "Instruction", li |-> li, to_location |-> NoRef]
PropagateNodeType(write, to_location) ==
    [type |-> "Propagate", li |-> write, to_location |-> to_location]

\* Propagate::id: format!("prop_{}", associated_write.id())
Propagate_id(nt) == <<"prop_", nt.li.thread_id, nt.li.line_index>>

\* NodeType::id
NodeType_id(nt) ==
    IF nt.type = "Instruction" THEN LabeledInstruction_id(nt.li) ELSE Propagate_id(nt)

\* NodeType::thread_id
NodeType_thread_id(nt) == nt.li.thread_id

\* InstructionNode::new / InstructionNode::new_propagate
InstructionNode_new(nt) == [instruction |-> nt, depends_on |-> <<>>, depends_on_me |-> <<>>]

EmptyGraph == [nodes |-> <<>>, arena |-> <<>>]

\* DependencyGraph::add_node / add_propagate: allocate the node, push it.
add_node_type(g, nt) ==
    LET p == NodeType_id(nt)
    IN  [nodes |-> Append(g.nodes, p),
         arena |-> [q \in DOMAIN g.arena \cup {p} |->
                        IF q = p THEN InstructionNode_new(nt) ELSE g.arena[q]]]

add_node(g, li) == add_node_type(g, InstructionNodeType(li))

add_propagate(g, write, to_location) ==
    add_node_type(g, PropagateNodeType(write, to_location))

\* add_dependency without the push onto to.depends_on_me.
add_dependency_one_sided(arena, from, to) ==
    IF \E i \in 1..Len(arena[from].depends_on) :
          NodeType_id(arena[arena[from].depends_on[i]].instruction)
            = NodeType_id(arena[to].instruction)
    THEN arena
    ELSE [arena EXCEPT ![from].depends_on = Append(@, to)]

\* add_dependency without the early return on an edge that exists.
add_dependency_unchecked(arena, from, to) ==
    LET a1 == [arena EXCEPT ![from].depends_on = Append(@, to)]
    IN  [a1 EXCEPT ![to].depends_on_me = Append(@, from)]

\* InstructionNode::add_dependency
add_dependency(arena, from, to) ==
    IF \E i \in 1..Len(arena[from].depends_on) :
          NodeType_id(arena[arena[from].depends_on[i]].instruction)
            = NodeType_id(arena[to].instruction)
    THEN arena
    ELSE LET a1 == [arena EXCEPT ![from].depends_on = Append(@, to)]
         IN  [a1 EXCEPT ![to].depends_on_me = Append(@, from)]

RECURSIVE add_dependencies_from(_, _, _)
\* for n in froms { add_dependency(n, to) }
add_dependencies_from(arena, froms, to) ==
    IF froms = <<>> THEN arena
    ELSE add_dependencies_from(add_dependency(arena, Head(froms), to), Tail(froms), to)

RECURSIVE add_dependencies_to(_, _, _)
\* for n in tos { add_dependency(from, n) }
add_dependencies_to(arena, from, tos) ==
    IF tos = <<>> THEN arena
    ELSE add_dependencies_to(add_dependency(arena, from, Head(tos)), from, Tail(tos))

\* ------------------------------------------------------ dfs_filter

\* The closures handed to dfs_filter, as data: the kind and what it captures.
\* rel_predicate that takes the next line only.
rel_predicate_next_line(cur_instr, other_node) ==
    /\ other_node.type = "Instruction"
    /\ cur_instr.thread_id = other_node.li.thread_id
    /\ cur_instr.line_index + 1 = other_node.li.line_index

\* rel_predicate with the comparison of acq_predicate.
rel_predicate_reversed(cur_instr, other_node) ==
    /\ other_node.type = "Instruction"
    /\ cur_instr.thread_id = other_node.li.thread_id
    /\ cur_instr.line_index > other_node.li.line_index

\* add_rel_deps: same thread, cur.line_index < other.line_index
rel_predicate(cur_instr, other_node) ==
    /\ other_node.type = "Instruction"
    /\ cur_instr.thread_id = other_node.li.thread_id
    /\ cur_instr.line_index < other_node.li.line_index

\* acq_predicate with the comparison of rel_predicate.
acq_predicate_reversed(cur_instr, other_node) ==
    /\ other_node.type = "Instruction"
    /\ cur_instr.thread_id = other_node.li.thread_id
    /\ cur_instr.line_index < other_node.li.line_index

\* add_acq_deps: same thread, cur.line_index > other.line_index
acq_predicate(cur_instr, other_node) ==
    /\ other_node.type = "Instruction"
    /\ cur_instr.thread_id = other_node.li.thread_id
    /\ cur_instr.line_index > other_node.li.line_index

\* fence_predicate that only takes the fences after the write.
fence_predicate_later_only(instr, other_node) ==
    /\ other_node.type = "Instruction"
    /\ other_node.li.instruction.op = "Fence"
    /\ other_node.li.thread_id = instr.thread_id
    /\ other_node.li.line_index > instr.line_index

\* remove_node, "Add dependencies from fences"
fence_predicate(instr, other_node) ==
    /\ other_node.type = "Instruction"
    /\ other_node.li.instruction.op = "Fence"
    /\ other_node.li.thread_id = instr.thread_id

\* propagate_predicate that never looks at the location (the TSO branch).
propagate_predicate_any_location(pso, instr, to_loc, other_node) ==
    /\ other_node.type = "Propagate"
    /\ other_node.li.thread_id = instr.thread_id
    /\ other_node.li.line_index # instr.line_index

\* propagate_predicate that takes the Propagate created last only.
propagate_predicate_newer_line(pso, instr, to_loc, other_node) ==
    /\ other_node.type = "Propagate"
    /\ (pso => other_node.to_location = to_loc)
    /\ other_node.li.thread_id = instr.thread_id
    /\ other_node.li.line_index > instr.line_index

\* propagate_predicate whose PSO branch takes nodes of every type.
propagate_predicate_pso_any_type(pso, instr, to_loc, other_node) ==
    IF pso
    THEN /\ other_node.li.thread_id = instr.thread_id
         /\ other_node.li.line_index # instr.line_index
    ELSE /\ other_node.type = "Propagate"
         /\ other_node.li.thread_id = instr.thread_id
         /\ other_node.li.line_index # instr.line_index

\* remove_node, "Add dependencies to other propagates"
propagate_predicate(pso, instr, to_loc, other_node) ==
    /\ other_node.type = "Propagate"
    /\ IF pso
       THEN /\ other_node.to_location = to_loc
            /\ other_node.li.thread_id = instr.thread_id
            /\ other_node.li.line_index # instr.line_index
       ELSE /\ other_node.li.thread_id = instr.thread_id
            /\ other_node.li.line_index # instr.line_index

predicate(c, other_node) ==
    CASE c.kind = "rel" -> rel_predicate(c.instr, other_node)
      [] c.kind = "acq" -> acq_predicate(c.instr, other_node)
      [] c.kind = "fence" -> fence_predicate(c.instr, other_node)
      [] c.kind = "propagate" -> propagate_predicate(c.pso, c.instr, c.to_loc, other_node)

Closure(kind, instr, pso, to_loc) ==
    [kind |-> kind, instr |-> instr, pso |-> pso, to_loc |-> to_loc]

RECURSIVE dfs_filter_aux(_, _, _, _)
RECURSIVE dfs_filter_each(_, _, _, _)
\* acc = [visited: set of ids, result: sequence of pointers]
dfs_filter_aux(arena, node, acc, c) ==
    IF NodeType_id(arena[node].instruction) \in acc.visited THEN acc
    ELSE LET nt == arena[node].instruction
             a1 == [visited |-> acc.visited \cup {NodeType_id(nt)},
                    result  |-> IF predicate(c, nt) THEN Append(acc.result, node)
                                ELSE acc.result]
         IN  dfs_filter_each(arena, arena[node].depends_on, a1, c)

\* for n in list { dfs_filter_aux(n, visited, result, predicate) }
dfs_filter_each(arena, list, acc, c) ==
    IF list = <<>> THEN acc
    ELSE dfs_filter_each(arena, Tail(list), dfs_filter_aux(arena, Head(list), acc, c), c)

dfs_filter(g, c) ==
    dfs_filter_each(g.arena, g.nodes, [visited |-> {}, result |-> <<>>], c).result

\* ------------------------------------------------- initial dependencies

add_rel_deps(g, cur_node) ==
    LET instr == g.arena[cur_node].instruction
    IN  IF instr.type = "Instruction"
        THEN [g EXCEPT !.arena = add_dependencies_from(
                  g.arena, dfs_filter(g, Closure("rel", instr.li, FALSE, NoRef)), cur_node)]
        ELSE g

add_acq_deps(g, cur_node) ==
    LET instr == g.arena[cur_node].instruction
    IN  IF instr.type = "Instruction"
        THEN [g EXCEPT !.arena = add_dependencies_to(
                  g.arena, cur_node, dfs_filter(g, Closure("acq", instr.li, FALSE, NoRef)))]
        ELSE g

\* get_access_mode_seq_cst that leaves the mode of a Load as written.
get_access_mode_seq_cst_load_as_written(instruction, prev_am) ==
    CASE instruction.op = "Load" -> prev_am
      [] instruction.op = "Store" -> IF instruction.mode = "SEQ_CST" THEN "REL" ELSE prev_am
      [] instruction.op \in {"Cas", "Fai"} ->
            IF instruction.mode = "SEQ_CST" THEN "REL_ACQ" ELSE prev_am
      [] OTHER -> "RLX"

\* The helper nested in add_dependencies.
get_access_mode_seq_cst(instruction, prev_am) ==
    CASE instruction.op = "Load" -> IF instruction.mode = "SEQ_CST" THEN "ACQ" ELSE prev_am
      [] instruction.op = "Store" -> IF instruction.mode = "SEQ_CST" THEN "REL" ELSE prev_am
      [] instruction.op \in {"Cas", "Fai"} ->
            IF instruction.mode = "SEQ_CST" THEN "REL_ACQ" ELSE prev_am
      [] OTHER -> "RLX"

\* add_dependencies that orders a relaxed access after the lines above it.
add_dependencies_rlx_as_acq(g, node_index) ==
    LET node == g.nodes[node_index]
        c_node == g.arena[node].instruction
    IN  IF /\ c_node.type = "Instruction"
           /\ c_node.li.instruction.op \in {"Load", "Store", "Cas", "Fai", "Fence"}
        THEN LET modified_am == get_access_mode_seq_cst(c_node.li.instruction,
                                                        c_node.li.instruction.mode)
             IN  CASE modified_am = "REL" -> add_rel_deps(g, node)
                   [] modified_am = "REL_ACQ" -> add_acq_deps(add_rel_deps(g, node), node)
                   [] OTHER -> add_acq_deps(g, node)
        ELSE g

add_dependencies(g, node_index) ==
    LET node == g.nodes[node_index]
        c_node == g.arena[node].instruction
    IN  IF /\ c_node.type = "Instruction"
           /\ c_node.li.instruction.op \in {"Load", "Store", "Cas", "Fai", "Fence"}
        THEN LET modified_am == get_access_mode_seq_cst(c_node.li.instruction,
                                                        c_node.li.instruction.mode)
             IN  CASE modified_am = "REL" -> add_rel_deps(g, node)
                   [] modified_am = "ACQ" -> add_acq_deps(g, node)
                   [] modified_am = "REL_ACQ" -> add_acq_deps(add_rel_deps(g, node), node)
                   [] OTHER -> g
        ELSE g

RECURSIVE build_dependencies_from(_, _)
build_dependencies_from(g, index) ==
    IF index > Len(g.nodes) THEN g
    ELSE build_dependencies_from(add_dependencies(g, index), index + 1)

build_dependencies(g) == build_dependencies_from(g, 1)

\* ------------------------------------------------ leaves and removal

\* get_leaves without the filter.
get_leaves_unfiltered(g) == g.nodes

\* DependencyGraph::get_leaves
get_leaves(g) == SelectSeq(g.nodes, LAMBDA n : g.arena[n].depends_on = <<>>)

RECURSIVE drop_incoming_clear(_, _, _)
\* drop_incoming that empties each dependent's depends_on instead of retaining.
drop_incoming_clear(arena, dependents, node) ==
    IF dependents = <<>> THEN arena
    ELSE drop_incoming_clear(
            [arena EXCEPT ![Head(dependents)].depends_on = <<>>],
            Tail(dependents), node)

\* drop_incoming that leaves every dependent's depends_on as it is.
drop_incoming_none(arena, dependents, node) == arena

RECURSIVE drop_incoming(_, _, _)
\* for dependency in node.depends_on_me { dependency.depends_on.retain(!= node) }
drop_incoming(arena, dependents, node) ==
    IF dependents = <<>> THEN arena
    ELSE drop_incoming(
            [arena EXCEPT ![Head(dependents)].depends_on = Retain(@, node)],
            Tail(dependents), node)

\* Whether an edge list of another node still holds a pointer to node.
strong_ref(arena, node) ==
    \E q \in DOMAIN arena \ {node} :
        node \in Range(arena[q].depends_on) \cup Range(arena[q].depends_on_me)

\* The node leaves the Vec; its allocation is freed unless an edge list holds it.
drop_node(g, node) ==
    LET keep == IF strong_ref(g.arena, node) THEN DOMAIN g.arena
                ELSE DOMAIN g.arena \ {node}
    IN  [nodes |-> Retain(g.nodes, node), arena |-> [q \in keep |-> g.arena[q]]]

None == [some |-> FALSE, instr |-> <<>>, to_loc |-> NoRef]
Some(instr, to_loc) == [some |-> TRUE, instr |-> instr, to_loc |-> to_loc]

\* The edges of a new Propagate node (remove_node, the `if let Some` block).
spawn_propagate(g, instr, to_loc, pso) ==
    LET g1 == add_propagate(g, instr, to_loc)
        propagate_node == g1.nodes[Len(g1.nodes)]
        dependant_nodes == dfs_filter(g1, Closure("fence", instr, pso, to_loc))
        a2 == add_dependencies_from(g1.arena, dependant_nodes, propagate_node)
        g2 == [g1 EXCEPT !.arena = a2]
        depended_nodes == dfs_filter(g2, Closure("propagate", instr, pso, to_loc))
    IN  [g2 EXCEPT !.arena = add_dependencies_to(a2, propagate_node, depended_nodes)]

\* DependencyGraph::remove_node that forgets the write to propagate.
remove_node_no_propagate(g, node, propagate, pso) ==
    IF g.arena[node].depends_on # <<>> \/ node \in Range(g.arena[node].depends_on_me)
    THEN [graph |-> g, panicked |-> TRUE]
    ELSE [graph |-> drop_node([g EXCEPT !.arena =
                                  drop_incoming(g.arena, g.arena[node].depends_on_me, node)],
                              node),
          panicked |-> FALSE]

\* DependencyGraph::remove_node; panicked when the node is not a leaf, and when
\* the node is its own dependent (borrow_mut of a RefCell that is borrowed).
remove_node(g, node, propagate, pso) ==
    IF g.arena[node].depends_on # <<>> \/ node \in Range(g.arena[node].depends_on_me)
    THEN [graph |-> g, panicked |-> TRUE]
    ELSE LET a1 == drop_incoming(g.arena, g.arena[node].depends_on_me, node)
             g1 == drop_node([g EXCEPT !.arena = a1], node)
         IN  [graph |-> IF propagate.some
                        THEN spawn_propagate(g1, propagate.instr, propagate.to_loc, pso)
                        ELSE g1,
              panicked |-> FALSE]

\* ------------------------------------------------------ memory subsystem

\* Memory::load / Memory::store (HashMap<String, usize>, 0 for a missing key)
Memory_load(data, addr) == IF addr \in DOMAIN data THEN data[addr] ELSE 0

Memory_store(data, addr, value) ==
    [a \in DOMAIN data \cup {addr} |-> IF a = addr THEN value ELSE data[a]]

WriteOperation(addr, value) == [addr |-> addr, value |-> value]

RECURSIVE Buffer_load(_, _)
\* Buffer::load without the rev(): the oldest write to the address.
Buffer_load_oldest(operations, addr) ==
    IF \E k \in 1..Len(operations) : operations[k].addr = addr
    THEN [some |-> TRUE,
          value |-> operations[CHOOSE k \in 1..Len(operations) :
                                  /\ operations[k].addr = addr
                                  /\ \A j \in 1..(k - 1) : operations[j].addr # addr].value]
    ELSE [some |-> FALSE, value |-> 0]

\* Buffer::load: operations.iter().rev().find(|op| op.addr == addr)
Buffer_load(operations, addr) ==
    IF operations = <<>> THEN [some |-> FALSE, value |-> 0]
    ELSE IF operations[Len(operations)].addr = addr
         THEN [some |-> TRUE, value |-> operations[Len(operations)].value]
         ELSE Buffer_load(SubSeq(operations, 1, Len(operations) - 1), addr)

\* Buffer::push
Buffer_push(operations, operation) == Append(operations, operation)

\* Buffer::propagate that pops the newest write (pop_back).
Buffer_propagate_pop_back(operations) ==
    IF operations = <<>> THEN [some |-> FALSE, write |-> WriteOperation("", 0), rest |-> <<>>]
    ELSE [some |-> TRUE, write |-> operations[Len(operations)],
          rest |-> SubSeq(operations, 1, Len(operations) - 1)]

\* Buffer::propagate: pop_front
Buffer_propagate(operations) ==
    IF operations = <<>> THEN [some |-> FALSE, write |-> WriteOperation("", 0), rest |-> <<>>]
    ELSE [some |-> TRUE, write |-> Head(operations), rest |-> Tail(operations)]

\* TSOMemorySubsystem::store that pushes the write twice.
TSO_store_twice(bufs, addr, value, thread_id) ==
    [t \in DOMAIN bufs \cup {thread_id} |->
        IF t = thread_id
        THEN Buffer_push(Buffer_push(IF t \in DOMAIN bufs THEN bufs[t] ELSE <<>>,
                                     WriteOperation(addr, value)),
                         WriteOperation(addr, value))
        ELSE bufs[t]]

\* TSOMemorySubsystem::store
TSO_store(bufs, addr, value, thread_id) ==
    [t \in DOMAIN bufs \cup {thread_id} |->
        IF t = thread_id
        THEN Buffer_push(IF t \in DOMAIN bufs THEN bufs[t] ELSE <<>>,
                         WriteOperation(addr, value))
        ELSE bufs[t]]

\* TSOMemorySubsystem::load that never looks into the buffer.
TSO_load_memory_only(mem, bufs, addr, thread_id) == Memory_load(mem, addr)

\* TSOMemorySubsystem::load
TSO_load(mem, bufs, addr, thread_id) ==
    LET hit == IF thread_id \in DOMAIN bufs THEN Buffer_load(bufs[thread_id], addr)
               ELSE [some |-> FALSE, value |-> 0]
    IN  IF hit.some THEN hit.value ELSE Memory_load(mem, addr)

\* TSOMemorySubsystem::propagate that writes the whole buffer back at once.
RECURSIVE Memory_store_all(_, _)
Memory_store_all(mem, operations) ==
    IF operations = <<>> THEN mem
    ELSE Memory_store_all(Memory_store(mem, Head(operations).addr, Head(operations).value),
                          Tail(operations))

TSO_propagate_flush(mem, bufs, thread_id) ==
    IF thread_id \notin DOMAIN bufs
    THEN [memory |-> mem, buffers |-> bufs, panicked |-> TRUE]
    ELSE [memory |-> Memory_store_all(mem, bufs[thread_id]),
          buffers |-> [bufs EXCEPT ![thread_id] = <<>>],
          panicked |-> FALSE]

\* TSOMemorySubsystem::propagate; panicked when the thread has no buffer (unwrap).
TSO_propagate(mem, bufs, thread_id) ==
    IF thread_id \notin DOMAIN bufs
    THEN [memory |-> mem, buffers |-> bufs, panicked |-> TRUE]
    ELSE LET popped == Buffer_propagate(bufs[thread_id])
         IN  [memory |-> IF popped.some
                         THEN Memory_store(mem, popped.write.addr, popped.write.value)
                         ELSE mem,
              buffers |-> [bufs EXCEPT ![thread_id] = popped.rest],
              panicked |-> FALSE]

\* Registers::store on a register file shared by all threads.
Registers_store_shared(regs, addr, value, thread_id) ==
    [t \in DOMAIN regs |-> Memory_store(regs[t], addr, value)]

\* Registers::load / Registers::store (one Memory per thread)
Registers_load(regs, addr, thread_id) == Memory_load(regs[thread_id], addr)

Registers_store(regs, addr, value, thread_id) ==
    [regs EXCEPT ![thread_id] = Memory_store(@, addr, value)]

\* ------------------------------------------------------------ TSO engine

RECURSIVE add_nodes(_, _)
\* for instruction in program { dependency_graph.add_node(instruction) }
add_nodes(g, lis) ==
    IF lis = <<>> THEN g ELSE add_nodes(add_node(g, Head(lis)), Tail(lis))

RECURSIVE add_programs(_, _, _)
add_programs(g, progs, t) ==
    IF t > Len(progs) THEN g ELSE add_programs(add_nodes(g, progs[t]), progs, t + 1)

\* TSO::new
TSO_new(progs) ==
    [dependency_graph |-> build_dependencies(add_programs(EmptyGraph, progs, 1)),
     registers |-> [t \in 0..(Len(progs) - 1) |-> <<>>],
     memory |-> <<>>,
     buffers |-> <<>>]

\* get_instructions_to_exec that offers the instruction nodes only.
get_instructions_to_exec_no_propagate(g) ==
    SelectSeq(get_leaves(g), LAMBDA n : g.arena[n].instruction.type = "Instruction")

\* TSO::get_instructions_to_exec
get_instructions_to_exec(g) == get_leaves(g)

IsRegister(r) == r.ref = "Register"
IsMemory(r) == r.ref = "Memory"

\* The process has ended (break out of the loop, or a panic): the engine and
\* all it owned are dropped; only the way it ended remains.
Ended(how) ==
    [dependency_graph |-> EmptyGraph, memory |-> <<>>, buffers |-> <<>>,
     registers |-> <<>>, status |-> how]

\* A panic that is swallowed: the engine goes on as it was.
Panic_ignored(s) == s

Panic(s) == Ended("panicked")

\* The end of every arm of exec_instruction: remove_node, which may panic.
finish(s, node, propagate, pso) ==
    LET r == remove_node(s.dependency_graph, node, propagate, pso)
    IN  IF r.panicked THEN Panic(s) ELSE [s EXCEPT !.dependency_graph = r.graph]

\* TSO::exec_instruction on s = [dependency_graph, memory, buffers, registers, status]
exec_instruction(s, instruction_node, pso) ==
    LET instruction == s.dependency_graph.arena[instruction_node].instruction
        thread_id == instruction.li.thread_id
        labeled_instruction == instruction.li
        i == labeled_instruction.instruction
        a == i.args
    IN  IF instruction.type = "Propagate"
        THEN LET m == TSO_propagate(s.memory, s.buffers, thread_id)
             IN  IF m.panicked THEN Panic(s)
                 ELSE finish([s EXCEPT !.memory = m.memory, !.buffers = m.buffers],
                             instruction_node, None, pso)
        ELSE CASE i.op = "AssignConst" /\ IsRegister(a[1]) ->
                    finish([s EXCEPT !.registers =
                               Registers_store(@, a[1].name, i.num, thread_id)],
                           instruction_node, None, pso)
               [] i.op = "AssignOperation" /\ IsRegister(a[1]) /\ IsRegister(a[2])
                                           /\ IsRegister(a[3]) ->
                    LET value1 == Registers_load(s.registers, a[2].name, thread_id)
                        value2 == Registers_load(s.registers, a[3].name, thread_id)
                        result == apply(i.arith, value1, value2)
                    IN  IF ~result.ok THEN Panic(s)
                        ELSE finish([s EXCEPT !.registers =
                                        Registers_store(@, a[1].name, result.value, thread_id)],
                                    instruction_node, None, pso)
               [] i.op = "Load" /\ IsMemory(a[1]) /\ IsRegister(a[2]) ->
                    LET value == TSO_load(s.memory, s.buffers, a[1].name, thread_id)
                    IN  finish([s EXCEPT !.registers =
                                   Registers_store(@, a[2].name, value, thread_id)],
                               instruction_node, None, pso)
               [] i.op = "Store" /\ IsRegister(a[1]) /\ IsMemory(a[2]) ->
                    LET value == Registers_load(s.registers, a[1].name, thread_id)
                    IN  finish([s EXCEPT !.buffers =
                                   TSO_store(@, a[2].name, value, thread_id)],
                               instruction_node, Some(labeled_instruction, a[2]), pso)
               [] i.op = "Cas" /\ IsRegister(a[1]) /\ IsMemory(a[2]) /\ IsRegister(a[3])
                               /\ IsRegister(a[4]) ->
                    LET expected == Registers_load(s.registers, a[3].name, thread_id)
                        desired_set == Registers_load(s.registers, a[4].name, thread_id)
                        cur_value == TSO_load(s.memory, s.buffers, a[2].name, thread_id)
                    IN  IF cur_value = expected
                        THEN finish([s EXCEPT
                                        !.buffers = TSO_store(@, a[2].name, desired_set, thread_id),
                                        !.registers =
                                            Registers_store(@, a[1].name, cur_value, thread_id)],
                                    instruction_node, Some(labeled_instruction, a[2]), pso)
                        ELSE finish([s EXCEPT !.registers =
                                        Registers_store(@, a[1].name, cur_value, thread_id)],
                                    instruction_node, None, pso)
               [] i.op = "Fai" /\ IsRegister(a[1]) /\ IsMemory(a[2]) /\ IsRegister(a[3]) ->
                    LET prior_to_increment ==
                            TSO_load(s.memory, s.buffers, a[2].name, thread_id)
                        increment_by == Registers_load(s.registers, a[3].name, thread_id)
                        new_value == prior_to_increment + increment_by
                    IN  finish([s EXCEPT
                                   !.buffers = TSO_store(@, a[2].name, new_value, thread_id),
                                   !.registers = Registers_store(@, a[1].name,
                                                                 prior_to_increment, thread_id)],
                               instruction_node, Some(labeled_instruction, a[2]), pso)
               [] i.op = "Fence" -> finish(s, instruction_node, None, pso)
               [] OTHER -> Panic(s)

\* ------------------------------------------------------------- programs

\* The lines the generated single-thread programs are made of:
\*   r1 = 1
\*   store RLX r1 #A
\*   store REL r1 #B
\*   load RLX #A r2
\*   load ACQ #B r2
\*   fence REL_ACQ
\*   r2 := cas SEQ_CST #B r2 r1
Alphabet ==
    { <<<<"r", "1">>, <<"=">>, <<"1">>>>,
      <<<<"s", "t", "o", "r", "e">>, <<"R", "L", "X">>, <<"r", "1">>, <<"#", "A">>>>,
      <<<<"s", "t", "o", "r", "e">>, <<"R", "E", "L">>, <<"r", "1">>, <<"#", "B">>>>,
      <<<<"l", "o", "a", "d">>, <<"R", "L", "X">>, <<"#", "A">>, <<"r", "2">>>>,
      <<<<"l", "o", "a", "d">>, <<"A", "C", "Q">>, <<"#", "B">>, <<"r", "2">>>>,
      <<<<"f", "e", "n", "c", "e">>, <<"R", "E", "L", "_", "A", "C", "Q">>>>,
      <<<<"r", "2">>,
        <<":", "=">>,
        <<"c", "a", "s">>,
        <<"S", "E", "Q", "_", "C", "S", "T">>,
        <<"#", "B">>,
        <<"r", "2">>,
        <<"r", "1">>>> }

\* Every single-thread program of 1..MaxLen lines of the alphabet.
GeneratedFiles ==
    UNION { { <<thread>> : thread \in [1..n -> Alphabet] } : n \in 1..MaxLen }

\* Message passing: T0 publishes data, then flag; T1 reads flag, then data.
\*   T0: x = 1 | store REL x #data | y = 1 | store REL y #flag
\*   T1: load ACQ #flag r1 | load RLX #data r2
MessagePassing ==
    << << <<<<"x">>, <<"=">>, <<"1">>>>,
          <<<<"s", "t", "o", "r", "e">>,
            <<"R", "E", "L">>,
            <<"x">>,
            <<"#", "d", "a", "t", "a">>>>,
          <<<<"y">>, <<"=">>, <<"1">>>>,
          <<<<"s", "t", "o", "r", "e">>,
            <<"R", "E", "L">>,
            <<"y">>,
            <<"#", "f", "l", "a", "g">>>> >>,
       << <<<<"l", "o", "a", "d">>,
            <<"A", "C", "Q">>,
            <<"#", "f", "l", "a", "g">>,
            <<"r", "1">>>>,
          <<<<"l", "o", "a", "d">>,
            <<"R", "L", "X">>,
            <<"#", "d", "a", "t", "a">>,
            <<"r", "2">>>> >> >>

\* Two independent relaxed stores of one thread; a second thread reads both.
\*   T0: store RLX a #A | store RLX b #B
\*   T1: load RLX #B r1 | load RLX #A r2
TwoStores ==
    << << <<<<"s", "t", "o", "r", "e">>, <<"R", "L", "X">>, <<"a">>, <<"#", "A">>>>,
          <<<<"s", "t", "o", "r", "e">>, <<"R", "L", "X">>, <<"b">>, <<"#", "B">>>> >>,
       << <<<<"l", "o", "a", "d">>, <<"R", "L", "X">>, <<"#", "B">>, <<"r", "1">>>>,
          <<<<"l", "o", "a", "d">>, <<"R", "L", "X">>, <<"#", "A">>, <<"r", "2">>>> >> >>

\* The same with distinct non-zero values written.
\*   T0: a = 1 | b = 2 | store RLX a #A | store RLX b #B
TwoStoresValued ==
    << << <<<<"a">>, <<"=">>, <<"1">>>>,
          <<<<"b">>, <<"=">>, <<"2">>>>,
          <<<<"s", "t", "o", "r", "e">>, <<"R", "L", "X">>, <<"a">>, <<"#", "A">>>>,
          <<<<"s", "t", "o", "r", "e">>, <<"R", "L", "X">>, <<"b">>, <<"#", "B">>>> >> >>

\* Store forwarding: a store and a load of the same address on one thread.
\*   T0: r1 = 1 | store RLX r1 #m | load RLX #m r2
\*   T1: load RLX #m r3
StoreForwarding ==
    << << <<<<"r", "1">>, <<"=">>, <<"1">>>>,
          <<<<"s", "t", "o", "r", "e">>, <<"R", "L", "X">>, <<"r", "1">>, <<"#", "m">>>>,
          <<<<"l", "o", "a", "d">>, <<"R", "L", "X">>, <<"#", "m">>, <<"r", "2">>>> >>,
       << <<<<"l", "o", "a", "d">>, <<"R", "L", "X">>, <<"#", "m">>, <<"r", "3">>>> >> >>

\* A fence of each mode between two stores, then a load.
\*   T0: store RLX r1 #A | fence <mode> | store RLX r1 #B | load RLX #A r2
FenceBetween(mode) ==
    << << <<<<"s", "t", "o", "r", "e">>, <<"R", "L", "X">>, <<"r", "1">>, <<"#", "A">>>>,
          <<<<"f", "e", "n", "c", "e">>, mode>>,
          <<<<"s", "t", "o", "r", "e">>, <<"R", "L", "X">>, <<"r", "1">>, <<"#", "B">>>>,
          <<<<"l", "o", "a", "d">>, <<"R", "L", "X">>, <<"#", "A">>, <<"r", "2">>>> >> >>

\* Arithmetic and a conditional jump.
\*   T0: r1 = 1 | L: r2 = r1 + r1 | if r2 goto L
JumpLoop ==
    << << <<<<"r", "1">>, <<"=">>, <<"1">>>>,
          <<<<"L", ":">>, <<"r", "2">>, <<"=">>, <<"r", "1">>, <<"+">>, <<"r", "1">>>>,
          <<<<"i", "f">>, <<"r", "2">>, <<"g", "o", "t", "o">>, <<"L">>>> >> >>

\* Synchronising accesses of two threads to one address.
\*   T0: one = 1 | r1 := fai REL_ACQ #c one | store SEQ_CST one #d
\*   T1: r1 := cas ACQ #c zero r1 | load SEQ_CST #d r2
Atomics ==
    << << <<<<"o", "n", "e">>, <<"=">>, <<"1">>>>,
          <<<<"r", "1">>,
            <<":", "=">>,
            <<"f", "a", "i">>,
            <<"R", "E", "L", "_", "A", "C", "Q">>,
            <<"#", "c">>,
            <<"o", "n", "e">>>>,
          <<<<"s", "t", "o", "r", "e">>,
            <<"S", "E", "Q", "_", "C", "S", "T">>,
            <<"o", "n", "e">>,
            <<"#", "d">>>> >>,
       << <<<<"r", "1">>,
            <<":", "=">>,
            <<"c", "a", "s">>,
            <<"A", "C", "Q">>,
            <<"#", "c">>,
            <<"z", "e", "r", "o">>,
            <<"r", "1">>>>,
          <<<<"l", "o", "a", "d">>,
            <<"S", "E", "Q", "_", "C", "S", "T">>,
            <<"#", "d">>,
            <<"r", "2">>>> >> >>

\* Sequentially consistent accesses of every kind on one thread.
\*   T0: store SEQ_CST r1 #A | load SEQ_CST #A r2 | r3 := fai SEQ_CST #A r1 | load RLX #A r2
SeqCstAccesses ==
    << << <<<<"s", "t", "o", "r", "e">>,
            <<"S", "E", "Q", "_", "C", "S", "T">>,
            <<"r", "1">>,
            <<"#", "A">>>>,
          <<<<"l", "o", "a", "d">>,
            <<"S", "E", "Q", "_", "C", "S", "T">>,
            <<"#", "A">>,
            <<"r", "2">>>>,
          <<<<"r", "3">>,
            <<":", "=">>,
            <<"f", "a", "i">>,
            <<"S", "E", "Q", "_", "C", "S", "T">>,
            <<"#", "A">>,
            <<"r", "1">>>>,
          <<<<"l", "o", "a", "d">>, <<"R", "L", "X">>, <<"#", "A">>, <<"r", "2">>>> >> >>

\* A loop that counts a register down to zero and falls through.
\*   T0: n = 2 | one = 1 | L: n = n - one | if n goto L | store RLX n #done
CountDown ==
    << << <<<<"n">>, <<"=">>, <<"2">>>>,
          <<<<"o", "n", "e">>, <<"=">>, <<"1">>>>,
          <<<<"L", ":">>, <<"n">>, <<"=">>, <<"n">>, <<"-">>, <<"o", "n", "e">>>>,
          <<<<"i", "f">>, <<"n">>, <<"g", "o", "t", "o">>, <<"L">>>>,
          <<<<"s", "t", "o", "r", "e">>,
            <<"R", "L", "X">>,
            <<"n">>,
            <<"#", "d", "o", "n", "e">>>> >> >>

\* A jump to a label no line of the thread carries.
\*   T0: r1 = 1 | if r1 goto nowhere
MissingLabel ==
    << << <<<<"r", "1">>, <<"=">>, <<"1">>>>,
          <<<<"i", "f">>,
            <<"r", "1">>,
            <<"g", "o", "t", "o">>,
            <<"n", "o", "w", "h", "e", "r", "e">>>> >> >>

\* Two writes of different values to one address and a load of it; another
\* thread loads the address too.
\*   T0: r1 = 1 | store RLX r1 #m | r2 = 2 | store RLX r2 #m | load RLX #m r3
\*   T1: load RLX #m r4
Overwrite ==
    << << <<<<"r", "1">>, <<"=">>, <<"1">>>>,
          <<<<"s", "t", "o", "r", "e">>, <<"R", "L", "X">>, <<"r", "1">>, <<"#", "m">>>>,
          <<<<"r", "2">>, <<"=">>, <<"2">>>>,
          <<<<"s", "t", "o", "r", "e">>, <<"R", "L", "X">>, <<"r", "2">>, <<"#", "m">>>>,
          <<<<"l", "o", "a", "d">>, <<"R", "L", "X">>, <<"#", "m">>, <<"r", "3">>>> >>,
       << <<<<"l", "o", "a", "d">>, <<"R", "L", "X">>, <<"#", "m">>, <<"r", "4">>>> >> >>

\* Files with blank lines before, between and after their instructions.
\*   T0: (blank) | r1 = 1 | (blank) | (blank) | store RLX r1 #A | load RLX #A r2
\*   T1: load RLX #A r3 | (blank) | L: store RLX r3 #A | (blank)
BlankLines ==
    << << <<>>,
          <<<<"r", "1">>, <<"=">>, <<"1">>>>,
          <<>>,
          <<>>,
          <<<<"s", "t", "o", "r", "e">>, <<"R", "L", "X">>, <<"r", "1">>, <<"#", "A">>>>,
          <<<<"l", "o", "a", "d">>, <<"R", "L", "X">>, <<"#", "A">>, <<"r", "2">>>> >>,
       << <<<<"l", "o", "a", "d">>, <<"R", "L", "X">>, <<"#", "A">>, <<"r", "3">>>>,
          <<>>,
          <<<<"L", ":">>,
            <<"s", "t", "o", "r", "e">>,
            <<"R", "L", "X">>,
            <<"r", "3">>,
            <<"#", "A">>>>,
          <<>> >> >>

\* A file whose second line has known tokens in no instruction shape.
\*   T0: r1 = 1 | load r1
NotAnInstruction ==
    << << <<<<"r", "1">>, <<"=">>, <<"1">>>>,
          <<<<"l", "o", "a", "d">>, <<"r", "1">>>> >> >>

\* A file whose second line has a token that is no command.
\*   T0: r1 = 1 | r2 = 1x
NotACommand ==
    << << <<<<"r", "1">>, <<"=">>, <<"1">>>>,
          <<<<"r", "2">>, <<"=">>, <<"1", "x">>>> >> >>

\* A fetch-and-increment, then a compare-and-swap of the value it wrote.
\*   T0: one = 1 | r1 := fai RLX #c one | r2 := cas RLX #c one r1
FetchAndCas ==
    << << <<<<"o", "n", "e">>, <<"=">>, <<"1">>>>,
          <<<<"r", "1">>, <<":", "=">>, <<"f", "a", "i">>, <<"R", "L", "X">>, <<"#", "c">>, <<"o", "n", "e">>>>,
          <<<<"r", "2">>, <<":", "=">>, <<"c", "a", "s">>, <<"R", "L", "X">>, <<"#", "c">>, <<"o", "n", "e">>, <<"r", "1">>>> >> >>

\* Arithmetic without a jump; the division fails while b is still 0.
\*   T0: a = 6 | b = 2 | c = a / b | store RLX c #q
Arithmetic ==
    << << <<<<"a">>, <<"=">>, <<"6">>>>,
          <<<<"b">>, <<"=">>, <<"2">>>>,
          <<<<"c">>, <<"=">>, <<"a">>, <<"/">>, <<"b">>>>,
          <<<<"s", "t", "o", "r", "e">>, <<"R", "L", "X">>, <<"c">>, <<"#", "q">>>> >> >>

\* The tokens of the five access modes.
AccessModes ==
    { <<"S", "E", "Q", "_", "C", "S", "T">>,
      <<"R", "E", "L", "_", "A", "C", "Q">>,
      <<"R", "E", "L">>,
      <<"A", "C", "Q">>,
      <<"R", "L", "X">> }

LitmusFiles ==
    { MessagePassing, TwoStores, TwoStoresValued, StoreForwarding, JumpLoop, Atomics,
      SeqCstAccesses, CountDown, MissingLabel, Overwrite, BlankLines, FetchAndCas,
      Arithmetic }
      \cup { FenceBetween(mode) : mode \in AccessModes }

\* Files that do not parse.
BrokenFiles == { NotAnInstruction, NotACommand }

Files == GeneratedFiles \cup LitmusFiles \cup BrokenFiles

\* ------------------------------------------------------ the interactive loop

\* A line read from standard input, by what InterpretorTSO::run does with it.
Inputs(options) ==
    { [kind |-> k, index |-> 0] :
        k \in {"exit", "registers", "memory", "graph_path", "graph", "other"} }
      \cup { [kind |-> "index", index |-> j] : j \in 0..Len(options) }

\* One pass of the loop body of InterpretorTSO::run after the options are listed.
run_input(s, options, input, pso) ==
    CASE input.kind = "exit" -> Ended("exited")
      [] input.kind \in {"registers", "memory", "graph_path"} -> s
      [] input.kind = "graph" -> Panic(s)
      [] input.kind = "index" ->
            IF input.index >= Len(options) THEN s
            ELSE exec_instruction(s, options[input.index + 1], pso)
      [] OTHER -> Panic(s)

State ==
    [dependency_graph |-> dependency_graph, memory |-> memory, buffers |-> buffers,
     registers |-> registers, status |-> status]

\* No runs are followed side by side, no engine runs next to the SC engine.
NoRuns == [pso \in BOOLEAN |-> {}]
NoEngine == Ended("absent")

\* No line is being parsed on its own.
NotParsed == [kind |-> "None", value |-> ""]

\* The choices of files that parse.
Parsable == { f \in Files : programs_to_instructions(f).kind = "Ok" }

\* InterpretorTSO::new: the files are parsed, which ends the process when a
\* line does not parse, and the engine is built on the programs.
Init ==
    /\ is_pso \in BOOLEAN
    /\ memory_model = IF is_pso THEN "PSO" ELSE "TSO"
    /\ \/ /\ programs \in { programs_to_instructions(f).value : f \in Parsable }
          /\ dependency_graph = TSO_new(programs).dependency_graph
          /\ memory = TSO_new(programs).memory
          /\ buffers = TSO_new(programs).buffers
          /\ registers = TSO_new(programs).registers
          /\ status = "running"
       \/ /\ \E f \in Files : programs_to_instructions(f).kind = "Panic"
          /\ programs = <<>>
          /\ dependency_graph = EmptyGraph
          /\ memory = <<>>
          /\ buffers = <<>>
          /\ registers = <<>>
          /\ status = "panicked"
    /\ instruction_pointers = <<>>
    /\ line = <<>>
    /\ parsed = NotParsed
    /\ steps = 0
    /\ writes = 0
    /\ reached = NoRuns
    /\ tso = NoEngine

\* InterpretorTSO::run, one iteration of the loop.
run_loop ==
    /\ status = "running"
    /\ LET options == get_instructions_to_exec(dependency_graph)
       IN  \E s \in IF options = <<>> THEN { Ended("finished") }
                    ELSE { run_input(State, options, input, is_pso) :
                               input \in Inputs(options) } :
              /\ dependency_graph' = s.dependency_graph
              /\ memory' = s.memory
              /\ buffers' = s.buffers
              /\ registers' = s.registers
              /\ status' = s.status
    /\ UNCHANGED <<memory_model, programs, is_pso, instruction_pointers, line, parsed>>

run == run_loop /\ UNCHANGED <<steps, writes, reached, tso>>

Next == run

Spec == Init /\ [][Next]_vars

\* ------------------------------------------------------------- SC engine

\* SCMemorySubsystem::store / load: straight to main memory.
SC_store(mem, addr, value, thread_id) == Memory_store(mem, addr, value)

\* SCMemorySubsystem::load that finds every address unwritten.
SC_load_zero(mem, addr, thread_id) == 0

SC_load(mem, addr, thread_id) == Memory_load(mem, addr)

\* SequentialConsistency::new
SC_new(progs) ==
    [memory |-> <<>>,
     registers |-> [t \in 0..(Len(progs) - 1) |-> <<>>],
     instruction_pointers |-> [t \in 0..(Len(progs) - 1) |-> 0]]

RECURSIVE SC_options_from_any_line(_, _, _)
\* SC_options_from that offers every line of a thread at or after its pc.
SC_options_from_any_line(progs, pointers, t) ==
    IF t > Len(progs) THEN <<>>
    ELSE SubSeq(progs[t], pointers[t - 1] + 1, Len(progs[t]))
         \o SC_options_from_any_line(progs, pointers, t + 1)

RECURSIVE SC_options_from(_, _, _)
\* for (thread_id, program) in programs: push program[pc] when pc < len
SC_options_from(progs, pointers, t) ==
    IF t > Len(progs) THEN <<>>
    ELSE (IF pointers[t - 1] < Len(progs[t])
          THEN <<progs[t][pointers[t - 1] + 1]>> ELSE <<>>)
         \o SC_options_from(progs, pointers, t + 1)

\* SequentialConsistency::get_instructions_to_exec
SC_get_instructions_to_exec(progs, pointers) == SC_options_from(progs, pointers, 1)

\* find_label_index that returns the index of the line after the labelled one.
find_label_index_next_line(progs, thread_id, label) ==
    LET program == progs[thread_id + 1]
        hits == { k \in 1..Len(program) :
                    program[k].label.some /\ program[k].label.name = label }
    IN  IF hits = {} THEN [found |-> FALSE, index |-> 0]
        ELSE [found |-> TRUE, index |-> CHOOSE k \in hits : \A j \in hits : k <= j]

\* SequentialConsistency::find_label_index: the 0-based index of the first
\* line of the thread that carries the label; found is FALSE when none does.
find_label_index(progs, thread_id, label) ==
    LET program == progs[thread_id + 1]
        hits == { k \in 1..Len(program) :
                    program[k].label.some /\ program[k].label.name = label }
    IN  IF hits = {} THEN [found |-> FALSE, index |-> 0]
        ELSE [found |-> TRUE,
              index |-> (CHOOSE k \in hits : \A j \in hits : k <= j) - 1]

\* The SC process has ended: the engine is dropped.
EndedSC(how) ==
    [memory |-> <<>>, registers |-> <<>>, instruction_pointers |-> <<>>, status |-> how]

\* self.instruction_pointers[thread_id] += 1
advance(s, thread_id) == [s EXCEPT !.instruction_pointers[thread_id] = @ + 1]

\* SequentialConsistency::exec_instruction on
\* s = [memory, registers, instruction_pointers, status]
SC_exec_instruction(s, progs, instruction) ==
    LET thread_id == instruction.thread_id
        i == instruction.instruction
        a == i.args
    IN  CASE i.op = "AssignConst" /\ IsRegister(a[1]) ->
                advance([s EXCEPT !.registers =
                            Registers_store(@, a[1].name, i.num, thread_id)], thread_id)
          [] i.op = "AssignOperation" /\ IsRegister(a[1]) /\ IsRegister(a[2])
                                      /\ IsRegister(a[3]) ->
                LET value1 == Registers_load(s.registers, a[2].name, thread_id)
                    value2 == Registers_load(s.registers, a[3].name, thread_id)
                    result == apply(i.arith, value1, value2)
                IN  IF ~result.ok THEN EndedSC("panicked")
                    ELSE advance([s EXCEPT !.registers =
                                     Registers_store(@, a[1].name, result.value, thread_id)],
                                 thread_id)
          [] i.op = "Load" /\ IsMemory(a[1]) /\ IsRegister(a[2]) ->
                LET value == SC_load(s.memory, a[1].name, thread_id)
                IN  advance([s EXCEPT !.registers =
                                Registers_store(@, a[2].name, value, thread_id)], thread_id)
          [] i.op = "Store" /\ IsRegister(a[1]) /\ IsMemory(a[2]) ->
                LET value == Registers_load(s.registers, a[1].name, thread_id)
                IN  advance([s EXCEPT !.memory = SC_store(@, a[2].name, value, thread_id)],
                            thread_id)
          [] i.op = "Cas" /\ IsRegister(a[1]) /\ IsMemory(a[2]) /\ IsRegister(a[3])
                          /\ IsRegister(a[4]) ->
                LET expected == Registers_load(s.registers, a[3].name, thread_id)
                    desired_set == Registers_load(s.registers, a[4].name, thread_id)
                    cur_value == SC_load(s.memory, a[2].name, thread_id)
                IN  IF cur_value = expected
                    THEN advance([s EXCEPT
                                     !.memory = SC_store(@, a[2].name, desired_set, thread_id),
                                     !.registers =
                                         Registers_store(@, a[1].name, cur_value, thread_id)],
                                 thread_id)
                    ELSE advance([s EXCEPT !.registers =
                                     Registers_store(@, a[1].name, cur_value, thread_id)],
                                 thread_id)
          [] i.op = "Fai" /\ IsRegister(a[1]) /\ IsMemory(a[2]) /\ IsRegister(a[3]) ->
                LET prior_to_increment == SC_load(s.memory, a[2].name, thread_id)
                    increment_by == Registers_load(s.registers, a[3].name, thread_id)
                    new_value == prior_to_increment + increment_by
                IN  advance([s EXCEPT
                                !.memory = SC_store(@, a[2].name, new_value, thread_id),
                                !.registers = Registers_store(@, a[1].name,
                                                              prior_to_increment, thread_id)],
                            thread_id)
          [] i.op = "Fence" -> advance(s, thread_id)
          [] i.op = "ConditionalJump" /\ IsRegister(a[1]) ->
                LET value == Registers_load(s.registers, a[1].name, thread_id)
                IN  IF value # 0
                    THEN LET label_index == find_label_index(progs, thread_id, i.goto)
                         IN  IF ~label_index.found THEN EndedSC("panicked")
                             ELSE [s EXCEPT !.instruction_pointers[thread_id] =
                                                label_index.index]
                    ELSE advance(s, thread_id)
          [] OTHER -> EndedSC("panicked")

\* A line read from standard input, by what InterpretorSC::run does with it.
InputsSC(options) ==
    { [kind |-> k, index |-> 0] : k \in {"exit", "registers", "memory", "other"} }
      \cup { [kind |-> "index", index |-> j] : j \in 0..Len(options) }

\* One pass of the loop body of InterpretorSC::run after the options are listed.
run_sc_input(s, progs, options, input) ==
    CASE input.kind = "exit" -> EndedSC("exited")
      [] input.kind \in {"registers", "memory"} -> s
      [] input.kind = "index" ->
            IF input.index >= Len(options) THEN s
            ELSE SC_exec_instruction(s, progs, options[input.index + 1])
      [] OTHER -> EndedSC("panicked")

StateSC ==
    [memory |-> memory, registers |-> registers,
     instruction_pointers |-> instruction_pointers, status |-> status]

\* InterpretorSC::new: the files are parsed, which ends the process when a
\* line does not parse, and the engine is built on the programs.
InitSC ==
    /\ memory_model = "SC"
    /\ is_pso = FALSE
    /\ dependency_graph = EmptyGraph
    /\ buffers = <<>>
    /\ \/ /\ programs \in { programs_to_instructions(f).value : f \in Parsable }
          /\ memory = SC_new(programs).memory
          /\ registers = SC_new(programs).registers
          /\ instruction_pointers = SC_new(programs).instruction_pointers
          /\ status = "running"
       \/ /\ \E f \in Files : programs_to_instructions(f).kind = "Panic"
          /\ programs = <<>>
          /\ memory = <<>>
          /\ registers = <<>>
          /\ instruction_pointers = <<>>
          /\ status = "panicked"
    /\ line = <<>>
    /\ parsed = NotParsed
    /\ steps = 0
    /\ writes = 0
    /\ reached = NoRuns
    /\ tso = NoEngine

\* InterpretorSC::run, one iteration of the loop.
run_sc ==
    /\ status = "running"
    /\ LET options == SC_get_instructions_to_exec(programs, instruction_pointers)
       IN  \E s \in IF options = <<>> THEN { EndedSC("finished") }
                    ELSE { run_sc_input(StateSC, programs, options, input) :
                               input \in InputsSC(options) } :
              /\ memory' = s.memory
              /\ registers' = s.registers
              /\ instruction_pointers' = s.instruction_pointers
              /\ status' = s.status
    /\ UNCHANGED <<memory_model, programs, is_pso, dependency_graph, buffers, line, parsed,
                   steps, writes, reached, tso>>

NextSC == run_sc

SpecSC == InitSC /\ [][NextSC]_vars

\* ------------------------------------------------------- counted runs

\* The number of writes in all store buffers.
RECURSIVE buffered(_)
buffered(bufs) ==
    IF DOMAIN bufs = {} THEN 0
    ELSE LET t == CHOOSE u \in DOMAIN bufs : TRUE
         IN  Len(bufs[t]) + buffered([u \in DOMAIN bufs \ {t} |-> bufs[u]])

\* InterpretorTSO::run, one iteration of the loop, counted: an iteration that
\* reaches exec_instruction and returns from it is a step, a step that leaves
\* one more write in the buffers has buffered a write.
run_counted ==
    /\ run_loop
    /\ steps' = IF status' = "running" /\ dependency_graph' # dependency_graph
                 THEN steps + 1 ELSE steps
    /\ writes' = IF status' = "running" /\ buffered(buffers') > buffered(buffers)
                  THEN writes + 1 ELSE writes
    /\ UNCHANGED <<reached, tso>>

NextCount == run_counted

SpecCount == Init /\ [][NextCount]_vars

\* ------------------------------------------------- PSO and TSO side by side

\* The engine of TSO::new as a State record.
Engine(progs) ==
    [dependency_graph |-> TSO_new(progs).dependency_graph,
     memory |-> TSO_new(progs).memory,
     buffers |-> TSO_new(progs).buffers,
     registers |-> TSO_new(progs).registers,
     status |-> "running"]

\* The engines one iteration of InterpretorTSO::run can leave running when
\* the user picks an offered index.
step_from(s, pso) ==
    { r \in { exec_instruction(s, get_instructions_to_exec(s.dependency_graph)[k], pso) :
                k \in 1..Len(get_instructions_to_exec(s.dependency_graph)) } :
        r.status = "running" }

step_all(engines, pso) == UNION { step_from(s, pso) : s \in engines }

\* InterpretorTSO::new in both modes on the same files.
InitBoth ==
    /\ programs \in { programs_to_instructions(f).value : f \in Parsable }
    /\ memory_model = "TSO"
    /\ is_pso = FALSE
    /\ dependency_graph = EmptyGraph
    /\ memory = <<>>
    /\ buffers = <<>>
    /\ registers = <<>>
    /\ instruction_pointers = <<>>
    /\ status = "running"
    /\ line = <<>>
    /\ parsed = NotParsed
    /\ steps = 0
    /\ writes = 0
    /\ reached = [pso \in BOOLEAN |-> { Engine(programs) }]
    /\ tso = NoEngine

\* One executed node in every run of both modes; the runs are over when no
\* engine of either mode is left.
run_both ==
    /\ status = "running"
    /\ reached' = [pso \in BOOLEAN |-> step_all(reached[pso], pso)]
    /\ steps' = steps + 1
    /\ status' = IF reached[TRUE] = {} /\ reached[FALSE] = {} THEN "finished" ELSE "running"
    /\ UNCHANGED <<memory_model, programs, is_pso, dependency_graph, memory, buffers,
                   registers, instruction_pointers, line, parsed, writes, tso>>

NextBoth == run_both

SpecBoth == InitBoth /\ [][NextBoth]_vars

\* ------------------------------------------------ TSO next to the SC engine

\* The user picks the node at a prompt of InterpretorTSO::run: it is executed
\* when it is among the options listed; a node that is not listed cannot be
\* picked, and the engine is stuck.
exec_offered(s, node) ==
    IF s.status # "running" THEN s
    ELSE IF node \in Range(get_instructions_to_exec(s.dependency_graph))
         THEN exec_instruction(s, node, FALSE)
         ELSE Ended("stuck")

\* The Propagate node is picked when the graph holds it.
propagate_after(s, node) ==
    IF s.status = "running" /\ node \in Range(s.dependency_graph.nodes)
    THEN exec_offered(s, node)
    ELSE s

\* The TSO schedule that follows one SC step: the node of the instruction,
\* then the Propagate node of its write if it has left one.
in_order(s, instruction) ==
    propagate_after(exec_offered(s, LabeledInstruction_id(instruction)),
                    <<"prop_", instruction.thread_id, instruction.line_index>>)

\* One pass of the loop body of InterpretorSC::run, and the TSO engine after
\* the schedule that follows it.
run_twin_input(s, engine, progs, options, input) ==
    [sc |-> run_sc_input(s, progs, options, input),
     tso |-> IF input.kind = "index" /\ input.index < Len(options)
             THEN in_order(engine, options[input.index + 1])
             ELSE engine]

\* InterpretorSC::new and InterpretorTSO::new (TSO) on the same files.
InitTwin ==
    /\ memory_model = "SC"
    /\ is_pso = FALSE
    /\ dependency_graph = EmptyGraph
    /\ buffers = <<>>
    /\ programs \in { programs_to_instructions(f).value : f \in Parsable }
    /\ memory = SC_new(programs).memory
    /\ registers = SC_new(programs).registers
    /\ instruction_pointers = SC_new(programs).instruction_pointers
    /\ status = "running"
    /\ line = <<>>
    /\ parsed = NotParsed
    /\ steps = 0
    /\ writes = 0
    /\ reached = NoRuns
    /\ tso = Engine(programs)

\* InterpretorSC::run, one iteration of the loop, with the TSO engine following.
run_twin ==
    /\ status = "running"
    /\ LET options == SC_get_instructions_to_exec(programs, instruction_pointers)
       IN  \E r \in IF options = <<>> THEN { [sc |-> EndedSC("finished"), tso |-> tso] }
                    ELSE { run_twin_input(StateSC, tso, programs, options, input) :
                               input \in InputsSC(options) } :
              /\ memory' = r.sc.memory
              /\ registers' = r.sc.registers
              /\ instruction_pointers' = r.sc.instruction_pointers
              /\ status' = r.sc.status
              /\ tso' = r.tso
    /\ UNCHANGED <<memory_model, programs, is_pso, dependency_graph, buffers, line, parsed,
                   steps, writes, reached>>

NextTwin == run_twin

SpecTwin == InitTwin /\ [][NextTwin]_vars

\* ------------------------------------------------------------------ main

\* main with a memory model that is none of SC, TSO, PSO: panic!("Invalid
\* memory model") before any program is read.
InitInvalid ==
    /\ memory_model = "other"
    /\ programs = <<>>
    /\ is_pso = FALSE
    /\ dependency_graph = EmptyGraph
    /\ memory = <<>>
    /\ buffers = <<>>
    /\ registers = <<>>
    /\ instruction_pointers = <<>>
    /\ status = "panicked"
    /\ line = <<>>
    /\ parsed = NotParsed
    /\ steps = 0
    /\ writes = 0
    /\ reached = NoRuns
    /\ tso = NoEngine

InitMain == Init \/ InitSC \/ InitInvalid

\* main: match memory_model { "SC" => InterpretorSC, "TSO" | "PSO" => InterpretorTSO }
main ==
    \/ memory_model = "SC" /\ run_sc
    \/ memory_model \in {"TSO", "PSO"} /\ run

NextMain == main

SpecMain == InitMain /\ [][NextMain]_vars

\* ------------------------------------------------------ parsing one line

\* The tokens the parsed lines are made of:
\*   r1 r2 #A # 1 12 1x = := + - load store if goto fence cas fai RLX REL_ACQ L: L
Tokens ==
    { <<"r", "1">>, <<"r", "2">>, <<"#", "A">>, <<"#">>, <<"1">>, <<"1", "2">>,
      <<"1", "x">>, <<"=">>, <<":", "=">>, <<"+">>, <<"-">>, <<"l", "o", "a", "d">>,
      <<"s", "t", "o", "r", "e">>, <<"i", "f">>, <<"g", "o", "t", "o">>,
      <<"f", "e", "n", "c", "e">>, <<"c", "a", "s">>, <<"f", "a", "i">>, <<"R", "L", "X">>,
      <<"R", "E", "L", "_", "A", "C", "Q">>, <<"L", ":">>, <<"L">> }

\* The tokens of the short lines:
\*   r1 #A 1 1x = load fence RLX L:
ShortTokens ==
    { <<"r", "1">>, <<"#", "A">>, <<"1">>, <<"1", "x">>, <<"=">>, <<"l", "o", "a", "d">>,
      <<"f", "e", "n", "c", "e">>, <<"R", "L", "X">>, <<"L", ":">> }

\* Every line of 1..MaxLen short tokens.
ShortLines ==
    UNION { [1..n -> ShortTokens] : n \in 1..MaxLen }

\* One line of each instruction shape:
\*   r1 = 12
\*   r3 = r1 + r2
\*   if r1 goto L
\*   load ACQ #A r1
\*   store REL r1 #A
\*   r1 := cas SEQ_CST #A r2 r3
\*   r1 := fai REL_ACQ #A r2
\*   fence RLX
Shapes ==
    { <<<<"r", "1">>, <<"=">>, <<"1", "2">>>>,
      <<<<"r", "3">>, <<"=">>, <<"r", "1">>, <<"+">>, <<"r", "2">>>>,
      <<<<"i", "f">>, <<"r", "1">>, <<"g", "o", "t", "o">>, <<"L">>>>,
      <<<<"l", "o", "a", "d">>, <<"A", "C", "Q">>, <<"#", "A">>, <<"r", "1">>>>,
      <<<<"s", "t", "o", "r", "e">>, <<"R", "E", "L">>, <<"r", "1">>, <<"#", "A">>>>,
      <<<<"r", "1">>, <<":", "=">>, <<"c", "a", "s">>, <<"S", "E", "Q", "_", "C", "S", "T">>, <<"#", "A">>, <<"r", "2">>, <<"r", "3">>>>,
      <<<<"r", "1">>, <<":", "=">>, <<"f", "a", "i">>, <<"R", "E", "L", "_", "A", "C", "Q">>, <<"#", "A">>, <<"r", "2">>>>,
      <<<<"f", "e", "n", "c", "e">>, <<"R", "L", "X">>>> }

\* The lines of Shapes, each also with one token replaced by any token and
\* with a label in front.
ShapeLines ==
    UNION { { [l EXCEPT ![i] = t] : i \in 1..Len(l), t \in Tokens } : l \in Shapes }
      \cup { <<<<"L", ":">>>> \o l : l \in Shapes }

\* The empty line is the line without a token.
Lines == ShortLines \cup ShapeLines \cup { <<>> }

\* A line is handed to the parser; no engine exists.
InitParse ==
    /\ line \in Lines
    /\ parsed = NotParsed
    /\ memory_model = ""
    /\ programs = <<>>
    /\ is_pso = FALSE
    /\ dependency_graph = EmptyGraph
    /\ memory = <<>>
    /\ buffers = <<>>
    /\ registers = <<>>
    /\ instruction_pointers = <<>>
    /\ status = "parsing"
    /\ steps = 0
    /\ writes = 0
    /\ reached = NoRuns
    /\ tso = NoEngine

\* line.parse::<LabeledInstruction>(): the result is returned, or the call
\* panics and the process ends.
from_str ==
    /\ status = "parsing"
    /\ parsed' = LabeledInstruction_from_str(line)
    /\ status' = IF parsed'.kind = "Panic" THEN "panicked" ELSE "parsed"
    /\ UNCHANGED <<memory_model, programs, is_pso, dependency_graph, memory, buffers,
                   registers, instruction_pointers, line, steps, writes, reached, tso>>

NextParse == from_str

SpecParse == InitParse /\ [][NextParse]_vars

\* ------------------------------------------------- vocabulary of the claims

NodesOf(g) == Range(g.nodes)
Nodes == NodesOf(dependency_graph)
Arena == dependency_graph.arena

IsInstructionNode(g, n) == g.arena[n].instruction.type = "Instruction"
IsPropagateNode(g, n) == g.arena[n].instruction.type = "Propagate"
IsFenceNode(g, n) ==
    IsInstructionNode(g, n) /\ g.arena[n].instruction.li.instruction.op = "Fence"
ThreadOf(g, n) == NodeType_thread_id(g.arena[n].instruction)
LineOf(g, n) == g.arena[n].instruction.li.line_index
ModeOf(g, n) == g.arena[n].instruction.li.instruction.mode
DependsOn(g, n) == Range(g.arena[n].depends_on)
DependsOnMe(g, n) == Range(g.arena[n].depends_on_me)

\* The graph TSO::new built from the loaded programs.
InitialGraph == TSO_new(programs).dependency_graph

\* No node has been executed yet.
AtStart == status = "running" /\ dependency_graph = InitialGraph

\* The buffered writes of a thread (none when it has no buffer yet).
BufferOf(bufs, t) == IF t \in DOMAIN bufs THEN bufs[t] ELSE <<>>

Reg(t, name) == Registers_load(registers, name, t)

Loaded(file) == programs = programs_to_instructions(file).value

RECURSIVE Descendants(_, _)
\* The least set holding S and closed under depends_on.
Descendants(g, S) ==
    LET next == S \cup UNION { DependsOn(g, x) : x \in S \cap DOMAIN g.arena }
    IN  IF next = S THEN S ELSE Descendants(g, next)

\* The nodes a reaches along one or more depends-on edges.
PathTargets(g, a) == Descendants(g, DependsOn(g, a))

\* The node executed by a step of the running engine: in the graph before,
\* not after.
Fired(n) ==
    /\ status' = "running"
    /\ n \in Nodes
    /\ n \notin NodesOf(dependency_graph')

\* ------------------------------------------------------------------ claims

\* C1: message passing under TSO: in every schedule of the MessagePassing
\* programs in which T1's ACQ load of flag put 1 into r1, T1's relaxed load of
\* data put 1 into r2.
C1_MessagePassingTSO ==
    ( /\ Loaded(MessagePassing) /\ ~is_pso /\ status = "running"
      /\ <<"", 1, 0>> \notin Nodes /\ <<"", 1, 1>> \notin Nodes
      /\ Reg(1, "r1") = 1 )
    => Reg(1, "r2") = 1

\* C2: under PSO the writes of one thread to distinct addresses reach main
\* memory in either order: when a thread has buffered a write to A and then a
\* write to B and the Propagate tagged with B fires first, main memory then
\* holds the B write while the A write is still in the thread's buffer.
C2_PSOEitherDrainOrder ==
    [][ \A p \in Nodes :
          LET t == ThreadOf(dependency_graph, p)
              buf == BufferOf(buffers, t)
          IN  ( /\ is_pso
                /\ IsPropagateNode(dependency_graph, p)
                /\ Fired(p)
                /\ Len(buf) = 2
                /\ buf[1].addr # buf[2].addr
                /\ Arena[p].instruction.to_location.name = buf[2].addr )
              => /\ buf[2].addr \in DOMAIN memory'
                 /\ memory'[buf[2].addr] = buf[2].value
                 /\ BufferOf(buffers', t) = <<buf[1]>> ]_vars

\* C3: firing a Propagate node applies to main memory exactly the write it is
\* tagged with: the oldest buffered write of its thread to the node's target
\* location leaves the buffer and is stored at that location; main memory and
\* the buffer change in no other way.
C3_PropagateAppliesItsWrite ==
    [][ \A p \in Nodes :
          LET t == ThreadOf(dependency_graph, p)
              buf == BufferOf(buffers, t)
              loc == Arena[p].instruction.to_location.name
          IN  (IsPropagateNode(dependency_graph, p) /\ Fired(p))
              => \E k \in 1..Len(buf) :
                    /\ buf[k].addr = loc
                    /\ \A j \in 1..(k - 1) : buf[j].addr # loc
                    /\ memory' = Memory_store(memory, loc, buf[k].value)
                    /\ BufferOf(buffers', t)
                         = SubSeq(buf, 1, k - 1) \o SubSeq(buf, k + 1, Len(buf)) ]_vars

\* C4: in the initial graph every later instruction of its thread depends on
\* a Fence of mode REL or REL_ACQ, and a Fence of mode ACQ or REL_ACQ depends
\* on every earlier instruction of its thread.
C4_FenceInitialEdges ==
    AtStart =>
      \A f \in Nodes : \A m \in Nodes :
        ( /\ IsFenceNode(dependency_graph, f)
          /\ IsInstructionNode(dependency_graph, m)
          /\ ThreadOf(dependency_graph, m) = ThreadOf(dependency_graph, f) )
        => /\ ( /\ ModeOf(dependency_graph, f) \in {"REL", "REL_ACQ"}
                /\ LineOf(dependency_graph, m) > LineOf(dependency_graph, f) )
              => f \in DependsOn(dependency_graph, m)
           /\ ( /\ ModeOf(dependency_graph, f) \in {"ACQ", "REL_ACQ"}
                /\ LineOf(dependency_graph, m) < LineOf(dependency_graph, f) )
              => m \in DependsOn(dependency_graph, f)

\* C5: under TSO, whenever a new Propagate P gets an edge to an existing
\* Propagate Q of the same thread, Q's originating line_index is lower than
\* P's (Propagates drain in program order of their writes).
C5_TSOPropagateProgramOrder ==
    [][ \A p \in NodesOf(dependency_graph') :
          ( /\ ~is_pso
            /\ p \notin Nodes
            /\ IsPropagateNode(dependency_graph', p) )
          => \A q \in DependsOn(dependency_graph', p) :
                ( /\ IsPropagateNode(dependency_graph', q)
                  /\ ThreadOf(dependency_graph', q) = ThreadOf(dependency_graph', p) )
                => LineOf(dependency_graph', q) < LineOf(dependency_graph', p) ]_vars

\* C6: store forwarding: in every schedule of the StoreForwarding programs,
\* once T0's store to m and T0's load of m have both executed, r2 holds the
\* value the store wrote (the only write to m), drained or not.
C6_StoreForwarding ==
    ( /\ Loaded(StoreForwarding) /\ status = "running"
      /\ <<"", 0, 1>> \notin Nodes /\ <<"", 0, 2>> \notin Nodes )
    => Reg(0, "r2") = TSO_load(memory, buffers, "m", 0)

\* C7: a Fence node of thread t has every Propagate node of thread t in its
\* depends-on list, and is a leaf only if thread t's store buffer is empty.
C7_FenceWaitsForBuffer ==
    \A f \in Nodes :
      IsFenceNode(dependency_graph, f) =>
        /\ \A p \in Nodes :
              ( /\ IsPropagateNode(dependency_graph, p)
                /\ ThreadOf(dependency_graph, p) = ThreadOf(dependency_graph, f) )
              => p \in DependsOn(dependency_graph, f)
        /\ DependsOn(dependency_graph, f) = {}
              => BufferOf(buffers, ThreadOf(dependency_graph, f)) = <<>>

\* A fence is held back by a pending Propagate of its thread.
C7_Witness ==
    \E f \in Nodes : \E p \in Nodes :
      /\ IsFenceNode(dependency_graph, f)
      /\ IsPropagateNode(dependency_graph, p)
      /\ ThreadOf(dependency_graph, p) = ThreadOf(dependency_graph, f)
      /\ BufferOf(buffers, ThreadOf(dependency_graph, f)) # <<>>

\* C8: when a node a reaches a node b along depends-on edges, no step
\* executes a while b is in the graph: after any step a is still in the graph
\* and either b has been executed or a still reaches b.  (Nodes with no path
\* between them are not ordered by this; C8_Witness is such a pair run out of
\* program order.)
C8_PathOrdersExecution ==
    [][ status' = "running" =>
          \A a \in Nodes : \A b \in PathTargets(dependency_graph, a) :
             /\ a \in NodesOf(dependency_graph')
             /\ b \in NodesOf(dependency_graph')
                   => b \in PathTargets(dependency_graph', a) ]_vars

\* A node that had dependencies in the initial graph has been executed, and a
\* node with no path to or from an earlier line ran before that earlier line.
C8_Witness ==
    /\ status = "running"
    /\ \E a \in NodesOf(InitialGraph) \ Nodes : DependsOn(InitialGraph, a) # {}
    /\ \E a \in NodesOf(InitialGraph) \ Nodes : \E b \in Nodes :
          /\ IsInstructionNode(dependency_graph, b)
          /\ ThreadOf(InitialGraph, a) = ThreadOf(InitialGraph, b)
          /\ LineOf(InitialGraph, a) > LineOf(InitialGraph, b)

\* C9: the dependency graph is acyclic in every reachable state: no node
\* reaches itself along depends-on edges.
C9_Acyclic ==
    \A a \in Nodes : a \notin PathTargets(dependency_graph, a)

\* A Propagate that depends on an older Propagate, with a fence waiting on it.
C9_Witness ==
    \E f \in Nodes : \E p \in Nodes : \E q \in Nodes :
      /\ IsFenceNode(dependency_graph, f)
      /\ IsPropagateNode(dependency_graph, p)
      /\ IsPropagateNode(dependency_graph, q)
      /\ p \in DependsOn(dependency_graph, f)
      /\ q \in DependsOn(dependency_graph, p)

\* C10: edge symmetry: b is in a's depends_on exactly when a is in b's
\* depends_on_me, and every pointer held by an edge list or by the arena is a
\* node of the graph.
C10_EdgeSymmetry ==
    /\ DOMAIN Arena = Nodes
    /\ \A a \in Nodes :
          /\ DependsOn(dependency_graph, a) \subseteq Nodes
          /\ DependsOnMe(dependency_graph, a) \subseteq Nodes
          /\ \A b \in DependsOn(dependency_graph, a) : a \in DependsOnMe(dependency_graph, b)
          /\ \A b \in DependsOnMe(dependency_graph, a) : a \in DependsOn(dependency_graph, b)

\* Edges remain after a node with dependents was removed and a Propagate added.
C10_Witness ==
    /\ \E a \in NodesOf(InitialGraph) \ Nodes : DependsOnMe(InitialGraph, a) # {}
    /\ \E p \in Nodes : IsPropagateNode(dependency_graph, p)
    /\ \E a \in Nodes : DependsOn(dependency_graph, a) # {}

\* A sequence that holds no element twice.
NoDup(s) == \A i \in 1..Len(s) : \A j \in 1..Len(s) : s[i] = s[j] => i = j

\* C11: no edge list holds the same node twice, and adding a dependency from
\* a to b when a already depends on b changes nothing.
C11_NoDuplicateEdges ==
    \A a \in Nodes :
      /\ NoDup(Arena[a].depends_on)
      /\ NoDup(Arena[a].depends_on_me)
      /\ \A b \in DependsOn(dependency_graph, a) : add_dependency(Arena, a, b) = Arena

\* The initial graph of a thread where a releasing access is followed by an
\* acquiring one: both rules ask for the same edge.
C11_Witness ==
    /\ AtStart
    /\ \E a \in Nodes : \E b \in DependsOn(dependency_graph, a) :
          /\ ModeOf(dependency_graph, b) = "REL"
          /\ ModeOf(dependency_graph, a) = "ACQ"
          /\ LineOf(dependency_graph, b) < LineOf(dependency_graph, a)

\* C12: a node leaves the graph only by being executed and only while its
\* depends_on list is empty: a step of the running engine removes at most one
\* node, an offered one with no dependencies; remove_node aborts on every node
\* that has dependencies and on none of the offered nodes.
C12_RemovedOnlyAsLeaf ==
    [][ /\ \A n \in Nodes :
             remove_node(dependency_graph, n, None, is_pso).panicked
               <=> Arena[n].depends_on # <<>>
        /\ \A n \in Range(get_instructions_to_exec(dependency_graph)) :
             ~remove_node(dependency_graph, n, None, is_pso).panicked
        /\ status' = "running" =>
             /\ Cardinality(Nodes \ NodesOf(dependency_graph')) <= 1
             /\ \A n \in Nodes \ NodesOf(dependency_graph') :
                   /\ Arena[n].depends_on = <<>>
                   /\ n \in Range(get_instructions_to_exec(dependency_graph)) ]_vars

\* A node that had dependencies at the start has been executed while another
\* node still waits on its dependencies.
C12_Witness ==
    /\ status = "running"
    /\ \E a \in NodesOf(InitialGraph) \ Nodes : DependsOn(InitialGraph, a) # {}
    /\ \E b \in Nodes : DependsOn(dependency_graph, b) # {}

\* C13: the executable set offered to the user is exactly the set of graph
\* nodes, instruction and Propagate nodes alike, whose depends_on list is
\* empty, each offered once.
C13_OptionsAreTheLeaves ==
    LET options == get_instructions_to_exec(dependency_graph)
    IN  /\ NoDup(options)
        /\ Range(options) = { n \in Nodes : Arena[n].depends_on = <<>> }

\* An instruction leaf, a Propagate leaf and a node that is not a leaf.
C13_Witness ==
    /\ \E n \in Nodes :
          IsInstructionNode(dependency_graph, n) /\ DependsOn(dependency_graph, n) = {}
    /\ \E n \in Nodes :
          IsPropagateNode(dependency_graph, n) /\ DependsOn(dependency_graph, n) = {}
    /\ \E n \in Nodes : DependsOn(dependency_graph, n) # {}

\* The effective mode of a Load/Store/Cas/Fai: SEQ_CST stands for ACQ on a
\* Load, REL on a Store, REL_ACQ on a Cas or Fai.
EffectiveMode(i) ==
    IF i.mode # "SEQ_CST" THEN i.mode
    ELSE CASE i.op = "Load" -> "ACQ"
           [] i.op = "Store" -> "REL"
           [] OTHER -> "REL_ACQ"

IsAccess(i) == i.op \in {"Load", "Store", "Cas", "Fai"}

InstrOf(g, n) == g.arena[n].instruction.li.instruction

\* C14: release edges of the initial graph: every instruction node of the
\* same thread with a larger line_index depends on each Load/Store/Cas/Fai
\* node whose effective mode is REL or REL_ACQ.
C14_ReleaseEdges ==
    AtStart =>
      \A n \in Nodes : \A m \in Nodes :
        ( /\ IsAccess(InstrOf(dependency_graph, n))
          /\ EffectiveMode(InstrOf(dependency_graph, n)) \in {"REL", "REL_ACQ"}
          /\ ThreadOf(dependency_graph, m) = ThreadOf(dependency_graph, n)
          /\ LineOf(dependency_graph, m) > LineOf(dependency_graph, n) )
        => n \in DependsOn(dependency_graph, m)

\* An initial graph with a SEQ_CST Store and one with a SEQ_CST Cas, each
\* followed by a later line of its thread.
C14_Witness ==
    /\ AtStart
    /\ \E n \in Nodes : \E m \in Nodes :
          /\ InstrOf(dependency_graph, n).op \in {"Store", "Cas"}
          /\ InstrOf(dependency_graph, n).mode = "SEQ_CST"
          /\ ThreadOf(dependency_graph, m) = ThreadOf(dependency_graph, n)
          /\ LineOf(dependency_graph, m) > LineOf(dependency_graph, n) + 1

\* C15: acquire edges of the initial graph: a Load/Store/Cas/Fai node whose
\* effective mode is ACQ or REL_ACQ depends on every instruction node of its
\* thread with a smaller line_index, and on no node with a larger one.
C15_AcquireEdges ==
    AtStart =>
      \A n \in Nodes :
        ( /\ IsAccess(InstrOf(dependency_graph, n))
          /\ EffectiveMode(InstrOf(dependency_graph, n)) \in {"ACQ", "REL_ACQ"} )
        => /\ \A m \in Nodes :
                 ( /\ ThreadOf(dependency_graph, m) = ThreadOf(dependency_graph, n)
                   /\ LineOf(dependency_graph, m) < LineOf(dependency_graph, n) )
                 => m \in DependsOn(dependency_graph, n)
           /\ \A m \in DependsOn(dependency_graph, n) :
                 /\ ThreadOf(dependency_graph, m) = ThreadOf(dependency_graph, n)
                 /\ LineOf(dependency_graph, m) < LineOf(dependency_graph, n)

\* An initial graph where a SEQ_CST Load stands between an earlier and a
\* later line of its thread.
C15_Witness ==
    /\ AtStart
    /\ \E n \in Nodes : \E m \in Nodes : \E k \in Nodes :
          /\ InstrOf(dependency_graph, n).op = "Load"
          /\ InstrOf(dependency_graph, n).mode = "SEQ_CST"
          /\ ThreadOf(dependency_graph, m) = ThreadOf(dependency_graph, n)
          /\ ThreadOf(dependency_graph, k) = ThreadOf(dependency_graph, n)
          /\ LineOf(dependency_graph, m) < LineOf(dependency_graph, n)
          /\ LineOf(dependency_graph, k) > LineOf(dependency_graph, n)

\* An instruction of effective mode RLX: a relaxed access, or an assignment or
\* a conditional jump.
IsRelaxed(i) ==
    \/ i.op \in {"AssignConst", "AssignOperation", "ConditionalJump"}
    \/ IsAccess(i) /\ EffectiveMode(i) = "RLX"

\* A loaded thread made of relaxed instructions only.
RelaxedThread(t) ==
    /\ t \in 1..Len(programs)
    /\ \A k \in 1..Len(programs[t]) : IsRelaxed(programs[t][k].instruction)

\* C16: relaxed instructions contribute no edges: in a thread made only of
\* them every instruction node is a leaf of the initial graph and of every
\* later graph, with nothing depending on it, so any of the thread's
\* remaining instructions can be chosen at any time.
C16_RelaxedNoEdges ==
    \A n \in Nodes :
      ( /\ IsInstructionNode(dependency_graph, n)
        /\ RelaxedThread(ThreadOf(dependency_graph, n) + 1) )
      => /\ DependsOn(dependency_graph, n) = {}
         /\ DependsOnMe(dependency_graph, n) = {}
         /\ n \in Range(get_instructions_to_exec(dependency_graph))

\* In a relaxed thread of three lines the last line has run, then the first,
\* and the middle one is still in the graph.
C16_Witness ==
    /\ status = "running"
    /\ RelaxedThread(1)
    /\ Len(programs[1]) = 3
    /\ <<"", 0, 1>> \in Nodes
    /\ <<"", 0, 0>> \notin Nodes
    /\ <<"", 0, 2>> \notin Nodes

\* The Propagate nodes of thread t in graph g, and those among them with no
\* dependencies.
PropagatesOf(g, t) ==
    { p \in NodesOf(g) : IsPropagateNode(g, p) /\ ThreadOf(g, p) = t }
LeafPropagatesOf(g, t) == { p \in PropagatesOf(g, t) : DependsOn(g, p) = {} }
LocationOf(g, p) == g.arena[p].instruction.to_location

\* The position of node n in the node list (nodes are pushed at the end, and
\* removal keeps the order: an earlier position is an older node).
Position(g, n) == CHOOSE i \in 1..Len(g.nodes) : g.nodes[i] = n

\* C17: under PSO, for `store RLX a #A; store RLX b #B` on one thread, once
\* both stores have executed and neither write has drained, the Propagate
\* nodes of both stores are leaves at the same time and both are offered.
C17_PSOBothPropagatesLeaves ==
    ( /\ is_pso /\ Loaded(TwoStores)
      /\ <<"prop_", 0, 0>> \in Nodes /\ <<"prop_", 0, 1>> \in Nodes )
    => /\ LeafPropagatesOf(dependency_graph, 0) = { <<"prop_", 0, 0>>, <<"prop_", 0, 1>> }
       /\ LeafPropagatesOf(dependency_graph, 0)
             \subseteq Range(get_instructions_to_exec(dependency_graph))

\* Both stores of TwoStores have executed under PSO and nothing has drained.
C17_Witness ==
    /\ is_pso /\ Loaded(TwoStores) /\ status = "running"
    /\ <<"prop_", 0, 0>> \in Nodes /\ <<"prop_", 0, 1>> \in Nodes
    /\ Len(BufferOf(buffers, 0)) = 2
    /\ { <<"prop_", 0, 0>>, <<"prop_", 0, 1>> }
          \subseteq Range(get_instructions_to_exec(dependency_graph))

\* C18: under PSO the Propagate nodes of one thread to one location are
\* totally ordered by creation: a new Propagate depends on exactly the
\* existing Propagates of its thread with its location, at most one Propagate
\* per (thread, location) is a leaf, and Propagates of one thread to different
\* locations have no edge between them.
C18_PSOPerLocationOrder ==
    [][ is_pso =>
          /\ \A p \in Nodes : \A q \in Nodes :
                ( /\ IsPropagateNode(dependency_graph, p)
                  /\ IsPropagateNode(dependency_graph, q)
                  /\ p # q
                  /\ ThreadOf(dependency_graph, p) = ThreadOf(dependency_graph, q) )
                => IF LocationOf(dependency_graph, p) = LocationOf(dependency_graph, q)
                   THEN /\ ~( /\ DependsOn(dependency_graph, p) = {}
                              /\ DependsOn(dependency_graph, q) = {} )
                        /\ Position(dependency_graph, q) < Position(dependency_graph, p)
                              => q \in DependsOn(dependency_graph, p)
                   ELSE q \notin DependsOn(dependency_graph, p)
          /\ status' = "running" =>
                \A p \in NodesOf(dependency_graph') \ Nodes :
                   { q \in DependsOn(dependency_graph', p) :
                        IsPropagateNode(dependency_graph', q) }
                     = { q \in PropagatesOf(dependency_graph, ThreadOf(dependency_graph', p)) :
                            LocationOf(dependency_graph, q)
                               = LocationOf(dependency_graph', p) } ]_vars

\* Under PSO a thread has three pending Propagates: two to one location, one
\* waiting on the other, and one to another location.
C18_Witness ==
    /\ is_pso
    /\ \E p \in Nodes : \E q \in Nodes : \E r \in Nodes :
          /\ IsPropagateNode(dependency_graph, p)
          /\ IsPropagateNode(dependency_graph, q)
          /\ IsPropagateNode(dependency_graph, r)
          /\ ThreadOf(dependency_graph, p) = ThreadOf(dependency_graph, q)
          /\ ThreadOf(dependency_graph, p) = ThreadOf(dependency_graph, r)
          /\ LocationOf(dependency_graph, p) = LocationOf(dependency_graph, q)
          /\ LocationOf(dependency_graph, p) # LocationOf(dependency_graph, r)
          /\ q \in DependsOn(dependency_graph, p)

\* C19: under TSO at most one Propagate node per thread is a leaf, and it is
\* the oldest one; firing it moves the oldest buffered write of the thread,
\* which is the write of that Propagate's location, to main memory: writes
\* reach main memory in the order in which they were buffered.
C19_TSOFifoDrain ==
    [][ ~is_pso =>
          \A p \in Nodes :
            LET t == ThreadOf(dependency_graph, p)
                buf == BufferOf(buffers, t)
            IN  ( /\ IsPropagateNode(dependency_graph, p)
                  /\ DependsOn(dependency_graph, p) = {} )
                => /\ LeafPropagatesOf(dependency_graph, t) = {p}
                   /\ \A q \in PropagatesOf(dependency_graph, t) \ {p} :
                         Position(dependency_graph, p) < Position(dependency_graph, q)
                   /\ buf # <<>>
                   /\ Fired(p) =>
                         /\ LocationOf(dependency_graph, p).name = buf[1].addr
                         /\ memory' = Memory_store(memory, buf[1].addr, buf[1].value)
                         /\ BufferOf(buffers', t) = Tail(buf) ]_vars

\* Under TSO a thread has buffered writes to two different addresses, one
\* Propagate waiting on the other, and the first write has reached memory
\* while the second is still buffered.
C19_Witness ==
    /\ ~is_pso /\ status = "running"
    /\ \E p \in Nodes :
          /\ IsPropagateNode(dependency_graph, p)
          /\ DependsOn(dependency_graph, p) = {}
          /\ BufferOf(buffers, ThreadOf(dependency_graph, p)) # <<>>
          /\ memory # <<>>
          /\ \A a \in DOMAIN memory :
                a # BufferOf(buffers, ThreadOf(dependency_graph, p))[1].addr

\* The program counter of thread t in the SC engine.
PC(t) == instruction_pointers[t]

\* C20: message passing under SC: in every interleaving of the MessagePassing
\* programs, once T1 has executed its load of flag with result 1, main memory
\* holds data = 1, and once it has executed its load of data as well, r2 = 1.
C20_MessagePassingSC ==
    ( /\ Loaded(MessagePassing) /\ status = "running"
      /\ PC(1) >= 1 /\ Reg(1, "r1") = 1 )
    => /\ SC_load(memory, "data", 1) = 1
       /\ PC(1) >= 2 => Reg(1, "r2") = 1

\* T1 has read flag = 1 and then data.
C20_Witness ==
    /\ Loaded(MessagePassing) /\ status = "running"
    /\ PC(1) = 2 /\ Reg(1, "r1") = 1 /\ Reg(1, "r2") = 1

\* The positions of the writes to address a in a buffer.
WritesTo(buf, a) == { k \in 1..Len(buf) : buf[k].addr = a }

\* What a load of address a by thread t may return: the newest write to a in
\* t's own buffer, or without one the value of a in main memory (0 if absent).
Visible(mem, bufs, a, t) ==
    LET buf == BufferOf(bufs, t)
        ks == WritesTo(buf, a)
    IN  IF ks # {} THEN buf[CHOOSE k \in ks : \A j \in ks : j <= k].value
        ELSE IF a \in DOMAIN mem THEN mem[a] ELSE 0

\* C21: the TSO/PSO load rule: executing a Load of address a by thread t puts
\* into its register the newest write to a in t's own buffer if there is one,
\* otherwise the main-memory value of a (0 if never written), whatever the
\* other threads have buffered; nothing else changes but the Load's node.
C21_LoadRule ==
    [][ \A n \in Nodes :
          LET i == InstrOf(dependency_graph, n)
              t == ThreadOf(dependency_graph, n)
          IN  ( /\ IsInstructionNode(dependency_graph, n)
                /\ i.op = "Load"
                /\ Fired(n) )
              => /\ registers' = Registers_store(registers, i.args[2].name,
                                    Visible(memory, buffers, i.args[1].name, t), t)
                 /\ memory' = memory
                 /\ buffers' = buffers ]_vars

\* A thread has buffered 1 and then 2 for one address and its load has put 2
\* into r3; then the other thread has loaded the address, of which main
\* memory holds no write yet, and got 0.
C21_Witness ==
    /\ status = "running"
    /\ Loaded(Overwrite)
    /\ BufferOf(buffers, 0) = <<WriteOperation("m", 1), WriteOperation("m", 2)>>
    /\ memory = <<>>
    /\ Reg(0, "r3") = 2
    /\ <<"", 1, 0>> \notin Nodes
    /\ Reg(1, "r4") = 0

\* C22: a Cas whose observed value differs from the expected register: under
\* TSO/PSO it leaves main memory and every store buffer unchanged, writes the
\* observed value to the destination register, creates no Propagate node and
\* its own node is removed; under SC it changes only the destination register
\* and the PC of its thread.
C22_FailedCasFrame ==
    [][ /\ \A n \in Nodes :
             LET i == InstrOf(dependency_graph, n)
                 t == ThreadOf(dependency_graph, n)
                 observed == Visible(memory, buffers, i.args[2].name, t)
             IN  ( /\ IsInstructionNode(dependency_graph, n)
                   /\ i.op = "Cas"
                   /\ Fired(n)
                   /\ observed # Reg(t, i.args[3].name) )
                 => /\ memory' = memory
                    /\ buffers' = buffers
                    /\ registers' = Registers_store(registers, i.args[1].name, observed, t)
                    /\ NodesOf(dependency_graph') = Nodes \ {n}
                    /\ dependency_graph'.nodes = Retain(dependency_graph.nodes, n)
        /\ (memory_model = "SC" /\ status' = "running") =>
             \A t \in DOMAIN instruction_pointers :
                LET i == programs[t + 1][PC(t) + 1].instruction
                    observed == IF i.args[2].name \in DOMAIN memory
                                THEN memory[i.args[2].name] ELSE 0
                IN  ( /\ instruction_pointers'[t] # PC(t)
                      /\ i.op = "Cas"
                      /\ observed # Reg(t, i.args[3].name) )
                    => /\ memory' = memory
                       /\ registers' = Registers_store(registers, i.args[1].name, observed, t)
                       /\ instruction_pointers' = [instruction_pointers EXCEPT ![t] = @ + 1]
                       /\ buffers' = buffers
                       /\ dependency_graph' = dependency_graph ]_vars

\* A Cas has failed: the store above it has written 1 to B, the Cas expected
\* r2 = 0, found 1 and put it into r2, leaving B as it was.
C22_Witness ==
    /\ status = "running"
    /\ Len(programs) = 1 /\ Len(programs[1]) = 3
    /\ programs[1][1].instruction = AssignConst(Register("r1"), 1)
    /\ programs[1][2].instruction = Store("REL", Register("r1"), Memory("B"))
    /\ programs[1][3].instruction.op = "Cas"
    /\ Reg(0, "r2") = 1
    /\ IF memory_model = "SC" THEN PC(0) = 3 /\ memory = [a \in {"B"} |-> 1]
       ELSE /\ Nodes = { <<"prop_", 0, 1>> }
            /\ BufferOf(buffers, 0) = <<WriteOperation("B", 1)>>

\* The loaded lines, and the nodes of the ConditionalJump lines among them.
LoadedLines ==
    UNION { { programs[t][k] : k \in 1..Len(programs[t]) } : t \in 1..Len(programs) }
JumpNodes ==
    { LabeledInstruction_id(li) :
        li \in { l \in LoadedLines : l.instruction.op = "ConditionalJump" } }

\* C23: executing a ConditionalJump node under TSO or PSO is fatal: choosing
\* an offered jump node aborts the engine, so no jump node ever leaves the
\* graph of a running engine and a program containing a jump never runs to an
\* empty executable set.
C23_JumpIsFatal ==
    /\ status = "running" =>
          /\ JumpNodes \subseteq Nodes
          /\ \A k \in 1..Len(get_instructions_to_exec(dependency_graph)) :
                LET n == get_instructions_to_exec(dependency_graph)[k]
                IN  n \in JumpNodes =>
                      run_input(State, get_instructions_to_exec(dependency_graph),
                                [kind |-> "index", index |-> k - 1], is_pso).status
                        = "panicked"
    /\ status = "finished" => JumpNodes = {}

\* Every other line of JumpLoop has run: the jump is the only option left.
C23_Witness ==
    /\ status = "running"
    /\ Loaded(JumpLoop)
    /\ get_instructions_to_exec(dependency_graph) = << <<"", 0, 2>> >>

\* The threads of the SC engine whose PC is below the program length.
LiveThreads == { t \in DOMAIN instruction_pointers : PC(t) < Len(programs[t + 1]) }

\* The line at the PC of thread t.
Current(t) == programs[t + 1][PC(t) + 1]

\* The 1-based positions of the lines of thread t that carry the label.
LabelLines(t, label) ==
    { k \in 1..Len(programs[t + 1]) : programs[t + 1][k].label = Label(label) }

\* C24: under SC the executable set holds, for each thread whose PC is below
\* its program length, exactly the line at that PC.  Executing a non-jump
\* instruction or a not-taken ConditionalJump advances only that thread's PC,
\* by 1; a taken ConditionalJump sets that thread's PC to the index of the
\* line carrying the label; a taken jump to a label no line of the thread
\* carries aborts.  Every step of the engine is one of these or changes no PC.
C24_SCExecutableSetAndPC ==
    [][ LET options == SC_get_instructions_to_exec(programs, instruction_pointers)
            chosen(k) == run_sc_input(StateSC, programs, options,
                                      [kind |-> "index", index |-> k - 1])
        IN  /\ Len(options) = Cardinality(LiveThreads)
            /\ Range(options) = { Current(t) : t \in LiveThreads }
            /\ \A k \in 1..Len(options) :
                  LET o == options[k]
                      t == o.thread_id
                      r == chosen(k)
                  IN  IF /\ o.instruction.op = "ConditionalJump"
                         /\ Reg(t, o.instruction.args[1].name) # 0
                      THEN IF LabelLines(t, o.instruction.goto) = {}
                           THEN r.status = "panicked"
                           ELSE /\ r.status = "running"
                                /\ \E l \in LabelLines(t, o.instruction.goto) :
                                      r.instruction_pointers =
                                        [instruction_pointers EXCEPT ![t] = l - 1]
                      ELSE r.status = "running" =>
                              r.instruction_pointers =
                                [instruction_pointers EXCEPT ![t] = @ + 1]
            /\ status' = "running" =>
                  \/ instruction_pointers' = instruction_pointers
                  \/ \E k \in 1..Len(options) :
                        instruction_pointers' = chosen(k).instruction_pointers ]_vars

\* CountDown after its jump was taken once: back at the labelled line, n = 1.
C24_Witness ==
    /\ status = "running"
    /\ Loaded(CountDown)
    /\ PC(0) = 2
    /\ Reg(0, "n") = 1

\* The inputs that are input errors at a prompt listing n options: a line that
\* is neither a command nor a number, and an index outside the options.
InputErrors(n) ==
    { [kind |-> "other", index |-> 0], [kind |-> "index", index |-> n] }

\* C25: input errors at the prompt are recoverable: an unparseable line or an
\* index outside the executable set leaves graph, memory, buffers, registers
\* and PCs unchanged and the session keeps running, under either engine.
C25_InputErrorsRecoverable ==
    status = "running" =>
        IF memory_model = "SC"
        THEN LET options == SC_get_instructions_to_exec(programs, instruction_pointers)
             IN  options # <<>> =>
                   \A input \in InputErrors(Len(options)) :
                      run_sc_input(StateSC, programs, options, input) = StateSC
        ELSE LET options == get_instructions_to_exec(dependency_graph)
             IN  options # <<>> =>
                   \A input \in InputErrors(Len(options)) :
                      run_input(State, options, input, is_pso) = State

\* The words of the language, and the classes of tokens.
ArithWords == {"+", "-", "/", "*"}
ModeWords == {"SEQ_CST", "REL", "ACQ", "REL_ACQ", "RLX"}
KeyWords ==
    ArithWords \cup ModeWords
      \cup {"=", ":=", "load", "store", "if", "goto", "fence", "cas", "fai"}

Is(token, word) == Str(token) = word
IsMode(token) == Str(token) \in ModeWords
IsArith(token) == Str(token) \in ArithWords
IsNumber(token) == \A k \in 1..Len(token) : token[k] \in Range(Digits)
IsIdentifier(token) == Str(token) \notin KeyWords /\ token[1] \notin Range(Digits)
IsKnown(token) == Str(token) \in KeyWords \/ IsIdentifier(token) \/ IsNumber(token)

\* What an identifier denotes: `#name` the memory cell name, else a register.
RefOf(token) ==
    IF token[1] = "#" THEN Memory(Str(SubSeq(token, 2, Len(token))))
    ELSE Register(Str(token))

ArithOf(token) ==
    CASE Is(token, "+") -> "Add" [] Is(token, "-") -> "Sub"
      [] Is(token, "/") -> "Div" [] Is(token, "*") -> "Mul"

\* The line after its label, if it starts with one.
HasLabel(l) == l # <<>> /\ l[1][Len(l[1])] = ":"
Body(l) == IF HasLabel(l) THEN Tail(l) ELSE l

\* The eight shapes of an instruction, on the tokens b.
IsAssignConst(b) ==
    Len(b) = 3 /\ IsIdentifier(b[1]) /\ Is(b[2], "=") /\ IsNumber(b[3])
IsAssignOperation(b) ==
    /\ Len(b) = 5 /\ IsIdentifier(b[1]) /\ Is(b[2], "=")
    /\ IsIdentifier(b[3]) /\ IsArith(b[4]) /\ IsIdentifier(b[5])
IsConditionalJump(b) ==
    /\ Len(b) = 4 /\ Is(b[1], "if") /\ IsIdentifier(b[2]) /\ Is(b[3], "goto")
    /\ IsIdentifier(b[4]) /\ b[4][1] # "#"
IsLoad(b) ==
    Len(b) = 4 /\ Is(b[1], "load") /\ IsMode(b[2]) /\ IsIdentifier(b[3]) /\ IsIdentifier(b[4])
IsStore(b) ==
    Len(b) = 4 /\ Is(b[1], "store") /\ IsMode(b[2]) /\ IsIdentifier(b[3]) /\ IsIdentifier(b[4])
IsCas(b) ==
    /\ Len(b) = 7 /\ IsIdentifier(b[1]) /\ Is(b[2], ":=") /\ Is(b[3], "cas") /\ IsMode(b[4])
    /\ IsIdentifier(b[5]) /\ IsIdentifier(b[6]) /\ IsIdentifier(b[7])
IsFai(b) ==
    /\ Len(b) = 6 /\ IsIdentifier(b[1]) /\ Is(b[2], ":=") /\ Is(b[3], "fai") /\ IsMode(b[4])
    /\ IsIdentifier(b[5]) /\ IsIdentifier(b[6])
IsFence(b) ==
    Len(b) = 2 /\ Is(b[1], "fence") /\ IsMode(b[2])
IsShape(b) ==
    \/ IsAssignConst(b) \/ IsAssignOperation(b) \/ IsConditionalJump(b) \/ IsLoad(b)
    \/ IsStore(b) \/ IsCas(b) \/ IsFai(b) \/ IsFence(b)

\* The line has been handed to the parser and the call is over.
Parsed == status \in {"parsed", "panicked"}

\* C26: each of the eight token shapes parses to the matching Instruction
\* variant with its operands in source order: AssignConst(ref, number),
\* AssignOperation(ref, ref, op, ref), ConditionalJump(ref, label),
\* Load(mode, first, second), Store(mode, first, second),
\* Cas(ref, mode, ref, ref, ref), Fai(ref, mode, ref, ref), Fence(mode); a
\* token that starts with `#` is a Memory reference named by the rest of the
\* token, any other identifier a Register reference named by the token.
C26_ShapesParse ==
    Parsed /\ line # <<>> =>
        LET b == Body(line)
            is(instruction) == parsed.kind = "Ok" /\ parsed.value.instruction = instruction
        IN  /\ IsAssignConst(b) =>
                  is(AssignConst(RefOf(b[1]), parse_usize(b[3]).value))
            /\ IsAssignOperation(b) =>
                  is(AssignOperation(RefOf(b[1]), RefOf(b[3]), ArithOf(b[4]), RefOf(b[5])))
            /\ IsConditionalJump(b) =>
                  is(ConditionalJump(RefOf(b[2]), Str(b[4])))
            /\ IsLoad(b) => is(Load(Str(b[2]), RefOf(b[3]), RefOf(b[4])))
            /\ IsStore(b) => is(Store(Str(b[2]), RefOf(b[3]), RefOf(b[4])))
            /\ IsCas(b) =>
                  is(Cas(RefOf(b[1]), Str(b[4]), RefOf(b[5]), RefOf(b[6]), RefOf(b[7])))
            /\ IsFai(b) => is(Fai(RefOf(b[1]), Str(b[4]), RefOf(b[5]), RefOf(b[6])))
            /\ IsFence(b) => is(Fence(Str(b[2])))

\* `store REL r1 #A` has been parsed: Store(REL, Register r1, Memory A).
C26_Witness ==
    /\ status = "parsed"
    /\ IsStore(line)
    /\ Str(line[3]) = "r1"
    /\ Str(line[4]) = "#A"
    /\ parsed = Ok(LabeledInstruction(NoLabel,
                                      Store("REL", Register("r1"), Memory("A")), 0, 0))

\* C27: parsing a line with a token returns an error value and never aborts:
\* InvalidCommand when a token of the instruction is unknown, InvalidInstruction
\* when its tokens are all known but in none of the eight shapes.
C27_ParseErrorsAreValues ==
    Parsed /\ line # <<>> =>
        LET b == Body(line)
        IN  /\ parsed.kind # "Panic"
            /\ (\E k \in 1..Len(b) : ~IsKnown(b[k])) => parsed = Err("InvalidCommand")
            /\ (\A k \in 1..Len(b) : IsKnown(b[k])) /\ ~IsShape(b) =>
                  parsed = Err("InvalidInstruction")

\* The lines of a file that are not blank, in file order.
RECURSIVE NonBlank(_)
NonBlank(file) ==
    IF file = <<>> THEN <<>>
    ELSE IF Head(file) = <<>> THEN NonBlank(Tail(file))
    ELSE <<Head(file)>> \o NonBlank(Tail(file))

\* C28: ids are unique in every reachable state.  The i-th line (0-based) of
\* the program of thread t carries (thread_id, line_index) = (t, i), so the
\* loaded lines have pairwise distinct ids, and the program of a thread is
\* its file's non-blank lines in order (stated for the files with blank lines
\* and for a file with a label); the node list of the graph never holds
\* an id twice, and every node is found under its own id.
C28_UniqueIds ==
    /\ \A t \in 1..Len(programs) : \A i \in 1..Len(programs[t]) :
          /\ programs[t][i].thread_id = t - 1
          /\ programs[t][i].line_index = i - 1
    /\ \A f \in { BlankLines, JumpLoop } :
          Loaded(f) =>
             \A t \in 1..Len(f) :
                /\ Len(programs[t]) = Len(NonBlank(f[t]))
                /\ \A i \in 1..Len(programs[t]) :
                      LabeledInstruction_from_str(NonBlank(f[t])[i]).value.instruction
                        = programs[t][i].instruction
    /\ status = "running" =>
          /\ NoDup(dependency_graph.nodes)
          /\ DOMAIN Arena = Nodes
          /\ \A n \in Nodes : NodeType_id(Arena[n].instruction) = n
          /\ \A n \in Nodes : \A m \in Nodes :
                /\ IsInstructionNode(dependency_graph, n)
                /\ IsPropagateNode(dependency_graph, m)
                => LineOf(dependency_graph, n) # LineOf(dependency_graph, m)
                     \/ ThreadOf(dependency_graph, n) # ThreadOf(dependency_graph, m)

\* The files with blank lines are loaded and the store of thread 0, the second
\* of its non-blank lines, has been executed: its Propagate node stands next to
\* the instruction nodes of the other lines.
C28_Witness ==
    /\ status = "running"
    /\ Loaded(BlankLines)
    /\ <<"prop_", 0, 1>> \in Nodes
    /\ <<"", 0, 2>> \in Nodes
    /\ <<"", 1, 1>> \in Nodes

\* The instruction node n buffers a write when it is executed: a Store, a Fai,
\* or a Cas that observes the value of its expected register.
Buffers(n) ==
    /\ IsInstructionNode(dependency_graph, n)
    /\ LET i == InstrOf(dependency_graph, n)
           t == ThreadOf(dependency_graph, n)
       IN  \/ i.op \in {"Store", "Fai"}
           \/ /\ i.op = "Cas"
              /\ Visible(memory, buffers, i.args[2].name, t) = Reg(t, i.args[3].name)

\* The location a Store, Fai or Cas writes to.
TargetOf(i) == i.args[2]

\* C29: executing a Store, a Fai or a successful Cas appends exactly one write,
\* to its target address, to the buffer of the executing thread and to no
\* other buffer, and replaces its node by exactly one new Propagate node, at
\* the end of the node list, carrying that instruction and its target
\* location; executing any other node (Load, AssignConst, AssignOperation,
\* Fence, failed Cas, Propagate) only removes that node from the node list and
\* adds no write to any buffer.
C29_BufferedWriteSpawnsPropagate ==
    [][ \A n \in Nodes :
          LET t == ThreadOf(dependency_graph, n)
              li == Arena[n].instruction.li
              p == <<"prop_", li.thread_id, li.line_index>>
              old(u) == BufferOf(buffers, u)
              new(u) == BufferOf(buffers', u)
          IN  Fired(n) =>
                IF Buffers(n)
                THEN /\ dependency_graph'.nodes = Append(Retain(dependency_graph.nodes, n), p)
                     /\ p \notin Nodes
                     /\ dependency_graph'.arena[p].instruction
                          = PropagateNodeType(li, TargetOf(li.instruction))
                     /\ Len(new(t)) = Len(old(t)) + 1
                     /\ SubSeq(new(t), 1, Len(old(t))) = old(t)
                     /\ new(t)[Len(new(t))].addr = TargetOf(li.instruction).name
                     /\ \A u \in (DOMAIN buffers \cup DOMAIN buffers') \ {t} : new(u) = old(u)
                ELSE /\ dependency_graph'.nodes = Retain(dependency_graph.nodes, n)
                     /\ \A u \in DOMAIN buffers \cup DOMAIN buffers' :
                           IF IsPropagateNode(dependency_graph, n) /\ u = t
                           THEN /\ Len(new(u)) <= Len(old(u))
                                /\ Range(new(u)) \subseteq Range(old(u))
                           ELSE new(u) = old(u) ]_vars

\* Both threads have buffered a write to #c: thread 0 by its Fai, thread 1 by
\* its Cas, which succeeded; each has its Propagate node in the graph.
C29_Witness ==
    /\ status = "running"
    /\ Loaded(Atomics)
    /\ BufferOf(buffers, 0) = <<WriteOperation("c", 1)>>
    /\ BufferOf(buffers, 1) = <<WriteOperation("c", 0)>>
    /\ <<"prop_", 0, 1>> \in Nodes
    /\ <<"prop_", 1, 0>> \in Nodes

\* The addresses at which two memories differ.
Changed(mem1, mem2) ==
    { a \in DOMAIN mem1 \cup DOMAIN mem2 :
        \/ a \notin DOMAIN mem1 \/ a \notin DOMAIN mem2 \/ mem1[a] # mem2[a] }

\* C30: executing an instruction node never changes main memory; while the
\* engine runs, main memory changes only in a step that fires a Propagate
\* node, and then at exactly one address, which gets a value and loses none.
C30_MemoryChangesOnlyByPropagate ==
    [][ /\ \A n \in Nodes :
             Fired(n) /\ IsInstructionNode(dependency_graph, n) => memory' = memory
        /\ (status' = "running" /\ memory' # memory) =>
             /\ \E p \in Nodes : IsPropagateNode(dependency_graph, p) /\ Fired(p)
             /\ Cardinality(Changed(memory, memory')) = 1
             /\ DOMAIN memory \subseteq DOMAIN memory' ]_vars

\* The write to #A has reached main memory, the write to #B is still buffered.
C30_Witness ==
    /\ status = "running"
    /\ Loaded(TwoStoresValued)
    /\ memory = [a \in {"A"} |-> 1]
    /\ BufferOf(buffers, 0) = <<WriteOperation("B", 2)>>

\* C31: Fai puts the prior value of its address into the destination register
\* and writes prior + increment to the address; a Cas that finds its expected
\* value puts the prior value into the destination register and writes the
\* desired value.  Under TSO/PSO the prior value is read by the load rule (own
\* buffer first) and the write is appended to the thread's buffer, main memory
\* unchanged; under SC the prior value is main memory's and the write goes
\* to main memory.  Increment, expected and desired are the register values
\* before the step.
C31_FaiAndCasValues ==
    [][ /\ \A n \in Nodes :
             LET i == InstrOf(dependency_graph, n)
                 t == ThreadOf(dependency_graph, n)
                 addr == i.args[2].name
                 prior == Visible(memory, buffers, addr, t)
                 written == IF i.op = "Fai" THEN prior + Reg(t, i.args[3].name)
                            ELSE Reg(t, i.args[4].name)
             IN  ( /\ IsInstructionNode(dependency_graph, n)
                   /\ Fired(n)
                   /\ \/ i.op = "Fai"
                      \/ i.op = "Cas" /\ prior = Reg(t, i.args[3].name) )
                 => /\ registers' = Registers_store(registers, i.args[1].name, prior, t)
                    /\ BufferOf(buffers', t)
                         = Append(BufferOf(buffers, t), WriteOperation(addr, written))
                    /\ memory' = memory
        /\ (memory_model = "SC" /\ status' = "running") =>
             \A t \in DOMAIN instruction_pointers :
                LET i == Current(t).instruction
                    addr == i.args[2].name
                    prior == IF addr \in DOMAIN memory THEN memory[addr] ELSE 0
                    written == IF i.op = "Fai" THEN prior + Reg(t, i.args[3].name)
                               ELSE Reg(t, i.args[4].name)
                IN  ( /\ t \in LiveThreads
                      /\ instruction_pointers'[t] # PC(t)
                      /\ \/ i.op = "Fai"
                         \/ i.op = "Cas" /\ prior = Reg(t, i.args[3].name) )
                    => /\ registers' = Registers_store(registers, i.args[1].name, prior, t)
                       /\ memory' = [a \in DOMAIN memory \cup {addr} |->
                                        IF a = addr THEN written ELSE memory[a]] ]_vars

\* TSO/PSO: the Fai has read 0 and buffered 1; the Cas has then read that 1
\* from the buffer (main memory holds nothing), found it expected, and
\* buffered the desired 0.
C31_Witness ==
    /\ status = "running"
    /\ memory_model \in {"TSO", "PSO"}
    /\ Loaded(FetchAndCas)
    /\ memory = <<>>
    /\ BufferOf(buffers, 0) = <<WriteOperation("c", 1), WriteOperation("c", 0)>>
    /\ Reg(0, "r1") = 0
    /\ Reg(0, "r2") = 1

\* The threads that have a node in the graph or a store buffer.
Threads(g, bufs) == { ThreadOf(g, n) : n \in NodesOf(g) } \cup DOMAIN bufs

\* Every thread has as many Propagate nodes as buffered writes.
Balanced(g, bufs) ==
    \A t \in Threads(g, bufs) : Cardinality(PropagatesOf(g, t)) = Len(BufferOf(bufs, t))

\* C32: while the engine runs, the number of Propagate nodes of a thread in
\* the graph equals the number of writes in that thread's store buffer, before
\* and after every step; a Propagate that fires finds a non-empty buffer and
\* takes exactly one write out of it.
C32_PropagatesMatchBuffer ==
    [][ /\ status = "running" => Balanced(dependency_graph, buffers)
        /\ status' = "running" => Balanced(dependency_graph', buffers')
        /\ \A p \in Nodes :
              IsPropagateNode(dependency_graph, p) /\ Fired(p) =>
                 LET t == ThreadOf(dependency_graph, p)
                 IN  /\ BufferOf(buffers, t) # <<>>
                     /\ Len(BufferOf(buffers', t)) = Len(BufferOf(buffers, t)) - 1 ]_vars

\* Both stores of the thread have been executed and one of the two Propagate
\* nodes has fired: one write is in main memory, one write and one Propagate
\* node are left.
C32_Witness ==
    /\ status = "running"
    /\ Loaded(TwoStoresValued)
    /\ Cardinality(PropagatesOf(dependency_graph, 0)) = 1
    /\ Len(BufferOf(buffers, 0)) = 1
    /\ DOMAIN memory # {}
    /\ \A n \in Nodes : IsPropagateNode(dependency_graph, n)

\* The loaded program has no ConditionalJump.
JumpFree == JumpNodes = {}

\* The number of instructions of the loaded program.
InstructionCount ==
    Cardinality(UNION { { <<t, k>> : k \in 1..Len(programs[t]) } : t \in 1..Len(programs) })

\* Every store buffer is empty.
Drained == \A t \in DOMAIN buffers : buffers[t] = <<>>

\* C33: a TSO/PSO run of a program without ConditionalJump terminates.  While
\* the engine runs: a non-empty graph offers at least one leaf; the steps taken
\* never exceed the number of instructions plus the number of writes buffered
\* so far; nothing is offered exactly when the steps taken equal that sum; and
\* when nothing is offered every store buffer is empty.
C33_JumpFreeRunsTerminate ==
    status = "running" /\ JumpFree =>
        /\ Nodes # {} => get_instructions_to_exec(dependency_graph) # <<>>
        /\ steps <= InstructionCount + writes
        /\ writes <= InstructionCount
        /\ get_instructions_to_exec(dependency_graph) = <<>>
              <=> steps = InstructionCount + writes
        /\ get_instructions_to_exec(dependency_graph) = <<>> => Drained

\* Both stores of TwoStoresValued and both of their writes have been executed:
\* four instructions and two buffered writes in six steps, nothing offered,
\* the buffer empty.
C33_Witness ==
    /\ status = "running"
    /\ Loaded(TwoStoresValued)
    /\ JumpFree
    /\ get_instructions_to_exec(dependency_graph) = <<>>
    /\ writes = 2
    /\ steps = InstructionCount + writes
    /\ DOMAIN buffers # {}
    /\ Drained

\* What the claim observes of an engine: the instruction nodes left in the
\* graph, the registers, main memory and the store buffers.
Observation(s) ==
    [instructions |-> { n \in NodesOf(s.dependency_graph) :
                          IsInstructionNode(s.dependency_graph, n) },
     registers |-> s.registers,
     memory |-> s.memory,
     buffers |-> s.buffers]

Observations(engines) == { Observation(s) : s \in engines }

\* The Propagate nodes the engine offers.
OfferedPropagates(s) ==
    { n \in Range(get_instructions_to_exec(s.dependency_graph)) :
        IsPropagateNode(s.dependency_graph, n) }

\* C34: PSO and TSO are observationally the same: for every program, after
\* any number of executed nodes, the combinations of remaining instruction
\* nodes, registers, main memory and store buffers that the PSO runs have
\* reached are those the TSO runs have reached.
C34_PsoObservesAsTso ==
    Observations(reached[TRUE]) = Observations(reached[FALSE])

\* Both stores of TwoStoresValued are buffered: a PSO engine offers both
\* Propagate nodes, no TSO engine does, so the engines reached differ while
\* their observations do not.
C34_Witness ==
    /\ status = "running"
    /\ Loaded(TwoStoresValued)
    /\ \E s \in reached[TRUE] : Cardinality(OfferedPropagates(s)) = 2
    /\ \A s \in reached[FALSE] : Cardinality(OfferedPropagates(s)) <= 1
    /\ \E s \in reached[FALSE] : Len(BufferOf(s.buffers, 0)) = 2
    /\ reached[TRUE] # reached[FALSE]
    /\ Observations(reached[TRUE]) = Observations(reached[FALSE])

\* The SC run is over: no thread has a line left.
FinalSC ==
    status = "running" /\ SC_get_instructions_to_exec(programs, instruction_pointers) = <<>>

\* C35: TSO admits every SC behaviour of a program without ConditionalJump.
\* The TSO engine that executes, after every SC step, the node of the same
\* instruction and then the Propagate of its write is never stuck (each of
\* these nodes is offered when its turn comes), has the registers and the main
\* memory of the SC engine and empty buffers, and when the SC run is over its
\* graph is empty: the final SC outcome is a final TSO outcome.
C35_TsoAdmitsSc ==
    status = "running" /\ JumpFree =>
        /\ tso.status = "running"
        /\ tso.registers = registers
        /\ tso.memory = memory
        /\ \A t \in DOMAIN tso.buffers : tso.buffers[t] = <<>>
        /\ FinalSC => NodesOf(tso.dependency_graph) = {}

\* MessagePassing has run to its end under SC with the reader first (it read
\* 0 twice) and the TSO engine has followed: both stores are in main memory,
\* its graph is empty.
C35_Witness ==
    /\ FinalSC
    /\ Loaded(MessagePassing)
    /\ JumpFree
    /\ DOMAIN memory # {}
    /\ \A a \in DOMAIN memory : memory[a] # 0
    /\ Reg(1, "r1") = 0
    /\ Reg(1, "r2") = 0
    /\ tso.status = "running"
    /\ tso.memory = memory
    /\ tso.registers = registers
    /\ DOMAIN tso.buffers # {}
    /\ NodesOf(tso.dependency_graph) = {}

\* The threads other than t that the engine knows of.
OtherThreads(t) ==
    (DOMAIN registers \cup DOMAIN buffers \cup { ThreadOf(dependency_graph, m) : m \in Nodes })
        \ {t}

\* Every edge of the graph joins two nodes of the same thread.
EdgesWithinThreads(g) ==
    \A n \in NodesOf(g) : \A m \in DependsOn(g, n) \cup DependsOnMe(g, n) :
        ThreadOf(g, m) = ThreadOf(g, n)

\* C36: threads are isolated in the TSO/PSO engine.  Every edge joins two
\* nodes of the same thread, before and after every step; executing a node of
\* thread t leaves the registers and the store buffer of every other thread,
\* and every node of every other thread with its depends_on list, as they
\* were; main memory changes only when the executed node is a Propagate.
C36_ThreadsIsolated ==
    [][ /\ status = "running" => EdgesWithinThreads(dependency_graph)
        /\ status' = "running" => EdgesWithinThreads(dependency_graph')
        /\ \A n \in Nodes : Fired(n) =>
              /\ \A u \in OtherThreads(ThreadOf(dependency_graph, n)) :
                    /\ u \in DOMAIN registers => registers'[u] = registers[u]
                    /\ BufferOf(buffers', u) = BufferOf(buffers, u)
                    /\ \A m \in Nodes : ThreadOf(dependency_graph, m) = u =>
                          /\ m \in NodesOf(dependency_graph')
                          /\ dependency_graph'.arena[m].depends_on = Arena[m].depends_on
              /\ memory' # memory => IsPropagateNode(dependency_graph, n) ]_vars

\* MessagePassing after both assignments of the writer: thread 0 has written
\* its registers x and y, while thread 1 has not run: its registers are empty
\* and both of its nodes are in the graph, next to the two stores of thread 0
\* of which one waits for the other.
C36_Witness ==
    /\ status = "running"
    /\ Loaded(MessagePassing)
    /\ Reg(0, "x") = 1
    /\ Reg(0, "y") = 1
    /\ registers[1] = <<>>
    /\ Cardinality({ m \in Nodes : ThreadOf(dependency_graph, m) = 0 }) = 2
    /\ Cardinality({ m \in Nodes : ThreadOf(dependency_graph, m) = 1 }) = 2
    /\ \E n \in Nodes :
          /\ ThreadOf(dependency_graph, n) = 0
          /\ DependsOn(dependency_graph, n) # {}

====
